---- MODULE Spec2Model ----
(***************************************************************************)
(* Model of the inventory ledger of SungSan/inventory-manager:             *)
(* src/inventory.py (the engine and the command line) and the ledger       *)
(* operations of src/inventory_gui.py (InventoryApp).                      *)
(*                                                                         *)
(* Representation.                                                         *)
(*  - A Python dict is a TLA+ function whose DOMAIN is the set of keys     *)
(*    present; Has/Get/Put/Pop/SetDefault are `in`, .get, item assignment, *)
(*    .pop(k, None) and .setdefault.                                       *)
(*  - The stock tree, whose shape the schema upgrader inspects with        *)
(*    isinstance, is a tagged value [k, n, m]: k is "dict", "int", "none"  *)
(*    (None, also what .get gives for an absent key) or "str" (any other   *)
(*    non-dict, non-int value); n is the integer; m the dict's content.    *)
(*  - A period key "YYYY-MM" is the number of its month (1, 2, ...): the   *)
(*    code compares the keys as strings, and for zero-padded keys that     *)
(*    order is the order of the months. NoPeriod (0) is None.              *)
(*  - A timestamp is reduced to its month; strftime("%Y-%m") is then the   *)
(*    period key. datetime.now() is an input `now` of the operation that   *)
(*    reads the clock; the actions read a logical clock, Now, that ticks   *)
(*    whenever a period record is created.                                 *)
(*  - An operation that raises returns the document as the partial         *)
(*    in-place mutations left it, together with the error.                 *)
(***************************************************************************)
EXTENDS Integers, Sequences, FiniteSets, TLC

VARIABLES
    data,     \* the document: InventoryApp.data, or the file between two commands
    result    \* what the last operation was and how it ended

vars == <<data, result>>

---------------------------------------------------------------------------
(* Bounds of the model *)

\* The longest history an operation may extend
MaxHistory == 2

\* The number of operations of an InventoryApp session
MaxSteps == 3

Items == {"A", "B"}
Options == {"", "v"}
Locations == {"L1", "L2"}
Periods == {1, 2}
Quantities == {1, 2}

---------------------------------------------------------------------------
(* Python values *)

None == "<None>"
NoPeriod == 0
EmptyMap == [x \in {} |-> 0]

Has(m, k) == k \in DOMAIN m
Get(m, k, dflt) == IF k \in DOMAIN m THEN m[k] ELSE dflt
Put(m, k, v) == [x \in (DOMAIN m) \cup {k} |-> IF x = k THEN v ELSE m[x]]
Pop(m, k) == [x \in (DOMAIN m) \ {k} |-> m[x]]
SetDefault(m, k, v) == IF k \in DOMAIN m THEN m ELSE Put(m, k, v)
TruthyStr(s) == s \notin {None, ""}

JInt(n) == [k |-> "int", n |-> n, m |-> EmptyMap]
JDict(f) == [k |-> "dict", n |-> 0, m |-> f]
JNone == [k |-> "none", n |-> 0, m |-> EmptyMap]
JStr == [k |-> "str", n |-> 0, m |-> EmptyMap]
IsDict(j) == j.k = "dict"
IsInt(j) == j.k = "int"
JTruthy(j) ==
    CASE j.k = "dict" -> DOMAIN j.m # {}
      [] j.k = "int" -> j.n # 0
      [] j.k = "none" -> FALSE
      [] OTHER -> TRUE

\* A metadata entry that is not a dict (a string, a list, ...).
NotADict == [notdict |-> TRUE]
IsDictInfo(info) == ~Has(info, "notdict")

\* stock.get(item, {}).get(option, {}).get(location, 0) on an option-keyed stock tree
StockQty(stock, item, option, location) ==
    Get(Get(Get(stock.m, item, JDict(EmptyMap)).m, option, JDict(EmptyMap)).m,
        location, JInt(0)).n

\* The keys <<item, option, location>> present in an option-keyed stock tree
StockKeys(stock) ==
    { <<i, o, l>> \in Items \X Options \X Locations :
        /\ Has(stock.m, i)
        /\ Has(stock.m[i].m, o)
        /\ Has(stock.m[i].m[o].m, l) }

NoError == [kind |-> "none", available |-> 0, requested |-> 0]
Error(kind) == [kind |-> kind, available |-> 0, requested |-> 0]

\* load_data._empty, without last_updated and activity_log
EmptyDocument ==
    [current_period |-> NoPeriod,
     periods |-> EmptyMap,
     stock |-> JDict(EmptyMap),
     history |-> <<>>,
     item_metadata |-> EmptyMap]

\* normalize_category over the category strings the model uses
normalize_category(value) ==
    CASE value \in {None, ""} -> "album"
      [] value \in {"md", "MD", "merch"} -> "md"
      [] value \in {"album", "ALBUM"} -> "album"
      [] OTHER -> value

_option_key(option) == IF option \in {None, ""} THEN "" ELSE option

---------------------------------------------------------------------------
(* Schema upgrader *)

\* The loop body over stock items
UpgradeStockItem(value) ==
    IF ~IsDict(value) THEN JDict("" :> JDict(EmptyMap))
    ELSE IF DOMAIN value.m # {} /\ \A q \in DOMAIN value.m : IsInt(value.m[q])
         THEN JDict("" :> value)
         ELSE value

\* The loop body over the items of a period's opening stock. Python raises
\* AttributeError for a truthy value that is not a dict (value.values()); the
\* model leaves such a value as it is.
UpgradeOpeningItem(value) ==
    IF JTruthy(value) /\ IsDict(value) /\ \A q \in DOMAIN value.m : IsInt(value.m[q])
    THEN JDict("" :> value)
    ELSE value

UpgradePeriodInfo(period_info) ==
    LET opening == Get(period_info, "opening_stock", JNone) IN
    IF ~IsDict(opening) THEN Put(period_info, "opening_stock", JDict(EmptyMap))
    ELSE Put(period_info, "opening_stock",
             JDict([i \in DOMAIN opening.m |-> UpgradeOpeningItem(opening.m[i])]))

UpgradeLastAudit(info) ==
    IF ~IsDictInfo(info) THEN info
    ELSE IF ~IsDict(Get(info, "last_audit", JNone))
         THEN Put(info, "last_audit", JDict(EmptyMap))
         ELSE info

UpgradeEntry(entry) ==
    SetDefault(SetDefault(SetDefault(SetDefault(entry,
        "event", FALSE), "event_id", ""), "event_open", FALSE), "category", "album")

UpgradeCategory(info) ==
    IF IsDictInfo(info) /\ ~TruthyStr(Get(info, "category", None))
    THEN Put(info, "category", "album")
    ELSE info

UpgradeStock(d) ==
    Put(d, "stock", JDict([i \in DOMAIN d.stock.m |-> UpgradeStockItem(d.stock.m[i])]))

\* data.setdefault("item_metadata", {}) and the last_audit loop
UpgradeMetadata(d) ==
    IF Has(d, "item_metadata")
    THEN Put(d, "item_metadata",
             [i \in DOMAIN d.item_metadata |-> UpgradeLastAudit(d.item_metadata[i])])
    ELSE Put(d, "item_metadata", EmptyMap)

UpgradePeriods(d) ==
    IF Has(d, "periods")
    THEN Put(d, "periods", [p \in DOMAIN d.periods |-> UpgradePeriodInfo(d.periods[p])])
    ELSE d

UpgradeHistory(d) ==
    IF Has(d, "history")
    THEN Put(d, "history", [n \in 1 .. Len(d.history) |-> UpgradeEntry(d.history[n])])
    ELSE d

UpgradeCategories(d) ==
    IF Has(d, "item_metadata")
    THEN Put(d, "item_metadata",
             [i \in DOMAIN d.item_metadata |-> UpgradeCategory(d.item_metadata[i])])
    ELSE d

_ensure_new_schema(d) ==
    IF ~IsDict(Get(d, "stock", JNone))
    THEN Put(d, "stock", JDict(EmptyMap))
    ELSE UpgradeCategories(UpgradeHistory(UpgradePeriods(UpgradeMetadata(UpgradeStock(d)))))

\* metadata.values() on an item_metadata that is not a dict raises AttributeError
RaisesInMetadata(d) ==
    Has(d, "item_metadata") /\ ~IsDictInfo(d.item_metadata)

\* value.values() on a truthy opening-stock value that is not a dict raises
RaisesInOpening(period_info) ==
    LET opening == Get(period_info, "opening_stock", JNone) IN
    /\ IsDict(opening)
    /\ \E i \in DOMAIN opening.m : JTruthy(opening.m[i]) /\ ~IsDict(opening.m[i])

\* period_info.get on a period that is not a dict raises AttributeError
RaisesInPeriods(d) ==
    /\ Has(d, "periods")
    /\ \E p \in DOMAIN d.periods :
          \/ ~IsDictInfo(d.periods[p])
          \/ IsDictInfo(d.periods[p]) /\ RaisesInOpening(d.periods[p])

\* entry.setdefault on a history entry that is not a dict raises AttributeError
RaisesInHistory(d) ==
    /\ Has(d, "history")
    /\ \E n \in 1 .. Len(d.history) : ~IsDictInfo(d.history[n])

\* The documents on which _ensure_new_schema raises instead of returning. A
\* stock that is not a dict returns before any of the raising loops is reached.
UpgradeRaises(d) ==
    /\ IsDict(Get(d, "stock", JNone))
    /\ (RaisesInMetadata(d) \/ RaisesInPeriods(d) \/ RaisesInHistory(d))

\* The document as the raise leaves it: the loops before the raising one have
\* run, the raising loop has changed nothing (exact when the first value the
\* loop visits is the one it raises on)
UpgradeUntilRaise(d) ==
    IF RaisesInMetadata(d) THEN UpgradeStock(d)
    ELSE IF RaisesInPeriods(d) THEN UpgradeMetadata(UpgradeStock(d))
    ELSE UpgradePeriods(UpgradeMetadata(UpgradeStock(d)))

---------------------------------------------------------------------------
(* Ledger engine *)

\* Mutant: the guard against back-dated keys is missing.
EnsurePeriodNoBackdateGuard(d, period, now) ==
    IF Has(d.periods, period) THEN d
    ELSE IF Get(d, "current_period", NoPeriod) = period THEN d
    ELSE Put(Put(d, "periods",
                 Put(d.periods, period,
                     [opening_stock |-> Get(d, "stock", JDict(EmptyMap)),
                      created_at |-> now])),
             "current_period", period)

\* Mutant: a key that is not back-dated is snapshotted again at every call.
EnsurePeriodAlwaysSnapshot(d, period, now) ==
    IF /\ Get(d, "current_period", NoPeriod) # NoPeriod
       /\ period < Get(d, "current_period", NoPeriod)
    THEN d
    ELSE Put(Put(d, "periods",
                 Put(d.periods, period,
                     [opening_stock |-> Get(d, "stock", JDict(EmptyMap)),
                      created_at |-> now])),
             "current_period", period)

\* ensure_period after its call of the upgrader
EnsurePeriodUpgraded(d, period, now) ==
    IF Has(d.periods, period) THEN d
    ELSE IF /\ Get(d, "current_period", NoPeriod) # NoPeriod
            /\ period < Get(d, "current_period", NoPeriod)
         THEN d
    ELSE IF Get(d, "current_period", NoPeriod) = period THEN d
    ELSE Put(Put(d, "periods",
                 Put(d.periods, period,
                     [opening_stock |-> Get(d, "stock", JDict(EmptyMap)),
                      created_at |-> now])),
             "current_period", period)

ensure_period(d, period, now) ==
    EnsurePeriodUpgraded(SetDefault(_ensure_new_schema(d), "periods", EmptyMap), period, now)

\* Mutant: the snapshot of ensure_period shares the item maps of the live stock
\* (a shallow copy), so an update of an item shows in every opening stock that
\* holds the same item map.
UpdateStockAliased(d, item, okey, location, quantity) ==
    LET updated ==
            JDict(Put(Get(d.stock.m, item, JDict(EmptyMap)).m, okey,
                JDict(Put(Get(Get(d.stock.m, item, JDict(EmptyMap)).m, okey, JDict(EmptyMap)).m,
                          location,
                          JInt(StockQty(d.stock, item, okey, location) + quantity)))))
        shared(info) ==
            /\ Has(d.stock.m, item)
            /\ Has(info.opening_stock.m, item)
            /\ info.opening_stock.m[item] = d.stock.m[item]
    IN [d EXCEPT !.stock = JDict(Put(d.stock.m, item, updated)),
                 !.periods = [p \in DOMAIN d.periods |->
                     IF shared(d.periods[p])
                     THEN Put(d.periods[p], "opening_stock",
                              JDict(Put(d.periods[p].opening_stock.m, item, updated)))
                     ELSE d.periods[p]]]

\* update_stock after its call of the upgrader
UpdateStockUpgraded(d, item, okey, location, quantity) ==
    Put(d, "stock",
        JDict(Put(d.stock.m, item,
            JDict(Put(Get(d.stock.m, item, JDict(EmptyMap)).m, okey,
                JDict(Put(Get(Get(d.stock.m, item, JDict(EmptyMap)).m, okey, JDict(EmptyMap)).m,
                          location,
                          JInt(StockQty(d.stock, item, okey, location) + quantity))))))))

update_stock(d, item, option, location, quantity) ==
    UpdateStockUpgraded(_ensure_new_schema(SetDefault(d, "stock", JDict(EmptyMap))),
                        item, _option_key(option), location, quantity)

\* Transaction.period
TxPeriod(tx) == tx.timestamp

\* Transaction.to_dict (timestamp, day, year and actor are left out)
to_dict(tx) ==
    [type |-> tx.type,
     artist |-> tx.artist,
     item |-> tx.item,
     category |-> tx.category,
     option |-> tx.option,
     location |-> tx.location,
     quantity |-> tx.quantity,
     period |-> TxPeriod(tx),
     description |-> tx.description,
     event |-> tx.event,
     event_id |-> tx.event_id,
     event_open |-> tx.event_open]

\* item_metadata[item], {} when the item has none
ItemInfo(d, item) == Get(Get(d, "item_metadata", EmptyMap), item, EmptyMap)

SetItemInfo(d, item, info) ==
    Put(d, "item_metadata", Put(Get(d, "item_metadata", EmptyMap), item, info))

\* info["artist"], info["category"] and, for a non-empty option, info["option"]
BoundInfo(info, tx) ==
    IF TruthyStr(tx.option)
    THEN Put(Put(Put(info, "artist", tx.artist), "category", normalize_category(tx.category)),
             "option", tx.option)
    ELSE Put(Put(info, "artist", tx.artist), "category", normalize_category(tx.category))

AppendHistory(d, entry) == Put(d, "history", Append(Get(d, "history", <<>>), entry))

SignedQuantity(tx) == IF tx.type = "out" THEN -tx.quantity ELSE tx.quantity

\* Mutant: the stock is updated before the availability check.
RecordStockMutateFirst(d, tx, allow_negative) ==
    IF /\ tx.type = "out"
       /\ StockQty(Get(d, "stock", JDict(EmptyMap)), tx.item, _option_key(tx.option), tx.location)
            < tx.quantity
       /\ ~allow_negative
    THEN [data |-> update_stock(d, tx.item, tx.option, tx.location, SignedQuantity(tx)),
          err |-> [kind |-> "InsufficientStock",
                   available |-> StockQty(Get(d, "stock", JDict(EmptyMap)), tx.item,
                                          _option_key(tx.option), tx.location),
                   requested |-> tx.quantity]]
    ELSE [data |-> AppendHistory(
                       update_stock(d, tx.item, tx.option, tx.location, SignedQuantity(tx)),
                       to_dict(tx)),
          err |-> NoError]

\* Mutant: the availability check refuses quantity = available.
RecordStockOffByOne(d, tx, allow_negative) ==
    IF /\ tx.type = "out"
       /\ StockQty(Get(d, "stock", JDict(EmptyMap)), tx.item, _option_key(tx.option), tx.location)
            <= tx.quantity
       /\ ~allow_negative
    THEN [data |-> d,
          err |-> [kind |-> "InsufficientStock",
                   available |-> StockQty(Get(d, "stock", JDict(EmptyMap)), tx.item,
                                          _option_key(tx.option), tx.location),
                   requested |-> tx.quantity]]
    ELSE [data |-> AppendHistory(
                       update_stock(d, tx.item, tx.option, tx.location, SignedQuantity(tx)),
                       to_dict(tx)),
          err |-> NoError]

\* record_transaction from the availability check on; d has the metadata written
RecordStock(d, tx, allow_negative) ==
    IF /\ tx.type = "out"
       /\ StockQty(Get(d, "stock", JDict(EmptyMap)), tx.item, _option_key(tx.option), tx.location)
            < tx.quantity
       /\ ~allow_negative
    THEN [data |-> d,
          err |-> [kind |-> "InsufficientStock",
                   available |-> StockQty(Get(d, "stock", JDict(EmptyMap)), tx.item,
                                          _option_key(tx.option), tx.location),
                   requested |-> tx.quantity]]
    ELSE [data |-> AppendHistory(
                       update_stock(d, tx.item, tx.option, tx.location, SignedQuantity(tx)),
                       to_dict(tx)),
          err |-> NoError]

\* record_transaction from the metadata lookup on; d is the upgraded document
RecordMetadata(d, tx, allow_negative) ==
    IF /\ TruthyStr(Get(ItemInfo(d, tx.item), "artist", None))
       /\ Get(ItemInfo(d, tx.item), "artist", None) # tx.artist
    THEN [data |-> SetItemInfo(d, tx.item, ItemInfo(d, tx.item)),
          err |-> Error("ArtistMismatch")]
    ELSE RecordStock(SetItemInfo(d, tx.item, BoundInfo(ItemInfo(d, tx.item), tx)),
                     tx, allow_negative)

\* Mutant: the period is ensured after the transaction has been applied.
RecordThenEnsurePeriod(d, tx, allow_negative, now) ==
    [data |-> ensure_period(RecordMetadata(_ensure_new_schema(d), tx, allow_negative).data,
                            TxPeriod(tx), now),
     err |-> RecordMetadata(_ensure_new_schema(d), tx, allow_negative).err]

\* record_transaction: [data |-> the document afterwards, err |-> the ValueError raised]
record_transaction(d, tx, allow_negative, now) ==
    RecordMetadata(_ensure_new_schema(ensure_period(d, TxPeriod(tx), now)), tx, allow_negative)

---------------------------------------------------------------------------
(* The engine called directly: ensure_period and record_transaction *)

Transaction(type, artist, item, option, location, quantity, timestamp) ==
    [type |-> type, artist |-> artist, item |-> item, category |-> "album",
     option |-> option, location |-> location, quantity |-> quantity,
     timestamp |-> timestamp, description |-> "", event |-> FALSE,
     event_id |-> "", event_open |-> FALSE]

\* The transactions given to the engine: every type, quantity and month at one key
\* of item "A" under artist "X", a unit of each type at a second key, and a unit of
\* each type under artist "Y".
EngineTxs ==
    { Transaction(ty, "X", "A", "", "L1", q, ts) :
        ty \in {"in", "out"}, q \in Quantities, ts \in Periods }
    \cup { Transaction(ty, "X", "A", "v", "L2", 1, 2) : ty \in {"in", "out"} }
    \cup { Transaction(ty, "Y", "A", "", "L1", 1, 1) : ty \in {"in", "out"} }

NoResult == [op |-> "init", err |-> NoError]

\* datetime.now(): the logical clock
Now(d) == Cardinality(DOMAIN Get(d, "periods", EmptyMap)) + 1
ClockValues == 1 .. (Cardinality(Periods) + 1)

Init ==
    /\ data = EmptyDocument
    /\ result = NoResult

\* ensure_period(data, p)
EnsurePeriod ==
    \E p \in Periods :
        /\ data' = ensure_period(data, p, Now(data))
        /\ result' = [op |-> "ensure_period", err |-> NoError]

\* record_transaction(data, tx, allow_negative=allow)
RecordTransaction ==
    \E tx \in EngineTxs :
        \E allow \in (IF tx.type = "out" THEN BOOLEAN ELSE {FALSE}) :
            LET r == record_transaction(data, tx, allow, Now(data)) IN
            /\ Len(data.history) < MaxHistory
            /\ data' = r.data
            /\ result' = [op |-> "record_transaction", err |-> r.err]

Next == EnsurePeriod \/ RecordTransaction

Spec == Init /\ [][Next]_vars

---------------------------------------------------------------------------
(* Claims about the engine, checked under Spec *)

LastEntry == data.history[Len(data.history)]

SamePeriods(d1, d2) == d1.current_period = d2.current_period /\ d1.periods = d2.periods

\* C2. A record_transaction call that fails (ArtistMismatch or InsufficientStock)
\* appends no history entry and leaves every stock quantity as it was: in every
\* reachable document, for every transaction and either value of the override,
\* a failing call returns the stock map and the history it was given.
RecordFailureKeepsLedger ==
    \A tx \in EngineTxs, allow \in BOOLEAN :
        LET r == record_transaction(data, tx, allow, Now(data)) IN
        r.err.kind # "none" =>
            /\ r.data.stock = data.stock
            /\ r.data.history = data.history

RecordFailureKeepsLedgerWitness ==
    /\ result.op = "record_transaction"
    /\ result.err.kind = "InsufficientStock"
    /\ result.err.available > 0
    /\ data.history # <<>>

\* C3. For an out transaction without override whose artist is the one the item is
\* bound to, at a key holding `available` units: quantity = available succeeds and
\* leaves the key at exactly 0; quantity > available fails with InsufficientStock,
\* the error carries available and the requested quantity, and stock is unchanged.
OutBoundary ==
    \A tx \in EngineTxs :
        LET available == StockQty(data.stock, tx.item, _option_key(tx.option), tx.location)
            bound == Get(ItemInfo(data, tx.item), "artist", None)
            r == record_transaction(data, tx, FALSE, Now(data))
        IN (tx.type = "out" /\ (~TruthyStr(bound) \/ bound = tx.artist)) =>
              /\ tx.quantity = available =>
                    /\ r.err.kind = "none"
                    /\ StockQty(r.data.stock, tx.item, _option_key(tx.option), tx.location) = 0
              /\ tx.quantity > available =>
                    /\ r.err = [kind |-> "InsufficientStock",
                                available |-> available, requested |-> tx.quantity]
                    /\ r.data.stock = data.stock

OutBoundaryWitness ==
    /\ result.op = "record_transaction"
    /\ result.err = [kind |-> "InsufficientStock", available |-> 1, requested |-> 2]

\* C7. current_period never decreases, and a call (ensure_period or
\* record_transaction) whose period key is strictly earlier than current_period
\* changes neither current_period nor the periods map.
PeriodMonotone ==
    /\ [][data'.current_period >= data.current_period]_vars
    /\ [](\A p \in Periods, now \in ClockValues :
            (data.current_period # NoPeriod /\ p < data.current_period) =>
                SamePeriods(ensure_period(data, p, now), data))
    /\ [](\A tx \in EngineTxs, allow \in BOOLEAN :
            (data.current_period # NoPeriod /\ TxPeriod(tx) < data.current_period) =>
                SamePeriods(record_transaction(data, tx, allow, Now(data)).data, data))

\* A back-dated transaction has been recorded and no record exists for its month.
PeriodMonotoneWitness ==
    /\ result.op = "record_transaction"
    /\ result.err.kind = "none"
    /\ LastEntry.period < data.current_period
    /\ ~Has(data.periods, LastEntry.period)

\* C8. Calling ensure_period twice in a row with the same key changes the document
\* at most on the first call, whatever the clock reads at either call.
EnsurePeriodIdempotent ==
    \A p \in Periods, n1 \in ClockValues, n2 \in ClockValues :
        ensure_period(ensure_period(data, p, n1), p, n2) = ensure_period(data, p, n1)

\* ensure_period has just opened a period over a non-empty stock.
EnsurePeriodIdempotentWitness ==
    /\ result.op = "ensure_period"
    /\ data.current_period # NoPeriod
    /\ Has(data.periods, data.current_period)
    /\ data.periods[data.current_period].opening_stock = data.stock
    /\ data.stock # JDict(EmptyMap)

\* C9. A period record that an operation creates holds the stock as it was before
\* the operation (for record_transaction: before the transaction's own effect), and
\* current_period becomes its key; ensure_period creates the record whenever the key
\* has none and is later than current_period or no current period is set.
OpeningStockIsLiveStock ==
    /\ [][\A p \in Periods :
            (~Has(data.periods, p) /\ Has(data'.periods, p)) =>
                /\ data'.periods[p].opening_stock = data.stock
                /\ data'.current_period = p]_vars
    /\ [](\A p \in Periods, now \in ClockValues :
            (~Has(data.periods, p) /\ (data.current_period = NoPeriod \/ p > data.current_period)) =>
                /\ Has(ensure_period(data, p, now).periods, p)
                /\ ensure_period(data, p, now).periods[p].opening_stock = data.stock
                /\ ensure_period(data, p, now).current_period = p)

\* A transaction opened the second period over a stock that its own effect changed.
OpeningStockIsLiveStockWitness ==
    /\ result.op = "record_transaction"
    /\ result.err.kind = "none"
    /\ Len(data.history) = 2
    /\ LastEntry.period = data.current_period
    /\ data.history[1].period < data.current_period
    /\ data.periods[data.current_period].opening_stock # data.stock
    /\ data.periods[data.current_period].opening_stock # JDict(EmptyMap)

---------------------------------------------------------------------------
(* The command line: receive, dispatch, start-period *)

\* str.strip over the argument strings the model uses
Strip(value) ==
    CASE value = " A " -> "A"
      [] value = "L1 " -> "L1"
      [] value = " " -> ""
      [] OTHER -> value

normalize_item(value) == Strip(value)
normalize_location(value) == Strip(value)

\* load_data on the file the last command saved (no file: _empty())
load_data(file) == _ensure_new_schema(file)

\* save_data: the file holds the document (last_updated is left out)
save_data(d) == d

\* determine_artist: [data, artist, err]
determine_artist(d, item, provided) ==
    IF TruthyStr(provided)
    THEN IF Strip(provided) = ""
         THEN [data |-> d, artist |-> None, err |-> Error("ArtistRequired")]
         ELSE IF /\ ItemInfo(d, item) # EmptyMap
                 /\ Get(ItemInfo(d, item), "artist", None) \notin {None, Strip(provided)}
              THEN [data |-> d, artist |-> None, err |-> Error("ArtistMismatch")]
              ELSE [data |-> SetItemInfo(d, item, Put(ItemInfo(d, item), "artist", Strip(provided))),
                    artist |-> Strip(provided), err |-> NoError]
    ELSE IF TruthyStr(Get(ItemInfo(d, item), "artist", None))
         THEN [data |-> d, artist |-> ItemInfo(d, item).artist, err |-> NoError]
         ELSE [data |-> d, artist |-> None, err |-> Error("ArtistNotFound")]

\* determine_category: [data, category]; info is item_metadata[item] when the
\* item has an entry, and a dict of its own otherwise
determine_category(d, item, provided) ==
    IF TruthyStr(provided)
    THEN [data |-> IF Has(d.item_metadata, item)
                   THEN SetItemInfo(d, item, SetDefault(ItemInfo(d, item), "category",
                                                        normalize_category(provided)))
                   ELSE d,
          category |-> normalize_category(provided)]
    ELSE IF TruthyStr(Get(ItemInfo(d, item), "category", None))
         THEN [data |-> d, category |-> normalize_category(ItemInfo(d, item).category)]
         ELSE [data |-> IF Has(d.item_metadata, item)
                        THEN SetItemInfo(d, item, Put(ItemInfo(d, item), "category", "album"))
                        ELSE d,
               category |-> "album"]

\* The Transaction handle_receive and handle_dispatch build
CommandTransaction(type, args, artist, category) ==
    [type |-> type, artist |-> artist, item |-> normalize_item(args.item),
     category |-> category,
     option |-> IF TruthyStr(args.option) THEN args.option ELSE "",
     location |-> normalize_location(args.location), quantity |-> args.quantity,
     timestamp |-> args.timestamp, description |-> "", event |-> FALSE,
     event_id |-> "", event_open |-> FALSE]

\* The handler after determine_artist has returned `a` without raising
CommandRecord(type, args, a, c, now) ==
    record_transaction(c.data, CommandTransaction(type, args, a.artist, c.category), FALSE, now)

\* handle_receive / handle_dispatch up to save_data: [data, err]
HandleCommand(type, file, args, now) ==
    IF determine_artist(load_data(file), normalize_item(args.item), args.artist).err # NoError
    THEN [data |-> file,
          err |-> determine_artist(load_data(file), normalize_item(args.item), args.artist).err]
    ELSE CommandRecord(type, args,
             determine_artist(load_data(file), normalize_item(args.item), args.artist),
             determine_category(
                 determine_artist(load_data(file), normalize_item(args.item), args.artist).data,
                 normalize_item(args.item), args.category),
             now)

Args(item, artist, category, option, location, quantity, timestamp) ==
    [item |-> item, artist |-> artist, category |-> category, option |-> option,
     location |-> location, quantity |-> quantity, timestamp |-> timestamp]

\* --quantity is any integer (type=int)
CommandQuantities == {-1, 0, 1, 2}

\* The command lines the model runs
CommandArgs ==
    { Args(" A ", a, None, None, "L1 ", q, 1) : a \in {None, "X", "Y"}, q \in CommandQuantities }
    \cup { Args("B", "X", "MD", "v", "L2", 1, 2), Args("B", " ", None, None, "L2", 1, 2),
           Args("B", None, "ALBUM", None, "L2", 1, 2), Args("B", "X", None, None, " ", 1, 2) }

InitCLI ==
    /\ data = EmptyDocument
    /\ result = NoResult

\* A command that raises does not reach save_data: the file stays as it was.
HandleReceive ==
    \E args \in CommandArgs :
        LET r == HandleCommand("in", data, args, Now(data)) IN
        /\ Len(data.history) < MaxHistory
        /\ data' = IF r.err = NoError THEN save_data(r.data) ELSE data
        /\ result' = [op |-> "receive", err |-> r.err]

HandleDispatch ==
    \E args \in CommandArgs :
        LET r == HandleCommand("out", data, args, Now(data)) IN
        /\ Len(data.history) < MaxHistory
        /\ data' = IF r.err = NoError THEN save_data(r.data) ELSE data
        /\ result' = [op |-> "dispatch", err |-> r.err]

HandleStartPeriod ==
    \E p \in Periods :
        /\ data' = save_data(ensure_period(load_data(data), p, Now(data)))
        /\ result' = [op |-> "start-period", err |-> NoError]

NextCLI == HandleReceive \/ HandleDispatch \/ HandleStartPeriod

SpecCLI == InitCLI /\ [][NextCLI]_vars

---------------------------------------------------------------------------
(* Claims about the command line, checked under SpecCLI *)

\* C4. No stock quantity is negative when no override was given: the command line
\* never passes allow_negative, so after any sequence of receive and dispatch
\* commands, whatever integer quantities they carry, every stock quantity is >= 0.
NonNegativeStock ==
    \A key \in StockKeys(data.stock) : StockQty(data.stock, key[1], key[2], key[3]) >= 0

\* C5. Every entry of the history has a quantity greater than 0: a command whose
\* quantity is zero or negative is rejected and records nothing.
HistoryQuantitiesPositive ==
    \A n \in 1 .. Len(data.history) : data.history[n].quantity > 0

---------------------------------------------------------------------------
(* The schema upgrader applied to raw documents *)

\* A document with the key set when `values` holds a value, absent when it is empty
WithField(d, key, values) ==
    IF values = {} THEN d ELSE Put(d, key, CHOOSE v \in values : TRUE)

LegacyLocations == JDict("L1" :> JInt(1))
OptionKeyed == JDict("" :> JDict("L1" :> JInt(1)))

\* stock: absent, null, a string, empty, and one item whose value is a legacy
\* location map, not a dict, an empty dict, or already keyed by option
RawStocks ==
    {{}} \cup { {v} : v \in {JNone, JStr, JDict(EmptyMap), JDict("A" :> LegacyLocations),
                             JDict("A" :> JStr), JDict("A" :> JDict(EmptyMap)),
                             JDict("A" :> OptionKeyed)} }

\* item_metadata: absent, empty, one entry that lacks last_audit and category,
\* is not a dict, or is complete, and a value that is not a dict at all
RawMetadata ==
    {{}} \cup { {v} : v \in {EmptyMap, "A" :> [artist |-> "X"], "A" :> NotADict, NotADict,
                             "A" :> [artist |-> "X", category |-> "md",
                                     last_audit |-> JDict(EmptyMap)]} }

\* periods: absent, and one period that is not a dict, or whose opening_stock is
\* absent, legacy, keyed by option, or holds a string for an item
RawPeriods ==
    {{}} \cup { {v} : v \in {1 :> [created_at |-> 1], 1 :> NotADict,
                             1 :> [created_at |-> 1, opening_stock |-> JDict("A" :> JStr)],
                             1 :> [created_at |-> 1,
                                   opening_stock |-> JDict("A" :> LegacyLocations)],
                             1 :> [created_at |-> 1,
                                   opening_stock |-> JDict("A" :> OptionKeyed)]} }

\* An entry written before the event fields and the category existed
LegacyEntry ==
    [type |-> "in", artist |-> "X", item |-> "A", option |-> "", location |-> "L1",
     quantity |-> 1, period |-> 1, description |-> ""]

\* history: absent, empty, one legacy entry, one entry that is not a dict, one
\* current entry
RawHistories ==
    {{}} \cup { {v} : v \in {<<>>, <<LegacyEntry>>, <<NotADict>>,
                             <<to_dict(Transaction("in", "X", "A", "", "L1", 1, 1))>>} }

RawDocument(stock, metadata, periods, history) ==
    WithField(WithField(WithField(WithField([current_period |-> NoPeriod],
        "stock", stock), "item_metadata", metadata), "periods", periods), "history", history)

RawDocuments ==
    { RawDocument(s, m, p, h) :
        s \in RawStocks, m \in RawMetadata, p \in RawPeriods, h \in RawHistories }

InitUpgrade ==
    /\ data \in RawDocuments
    /\ result = NoResult

\* _ensure_new_schema(data)
UpgradeDocument ==
    IF UpgradeRaises(data)
    THEN /\ data' = UpgradeUntilRaise(data)
         /\ result' = [op |-> "upgrade", err |-> Error("AttributeError")]
    ELSE /\ data' = _ensure_new_schema(data)
         /\ result' = [op |-> "upgrade", err |-> NoError]

NextUpgrade == UpgradeDocument

SpecUpgrade == InitUpgrade /\ [][NextUpgrade]_vars

---------------------------------------------------------------------------
(* Claims about the schema upgrader, checked under SpecUpgrade *)

\* C10. For every document, raw or already upgraded, applying the upgrader twice
\* gives the document that applying it once gives.
UpgradeIdempotent ==
    ~UpgradeRaises(data) =>
        _ensure_new_schema(_ensure_new_schema(data)) = _ensure_new_schema(data)

\* C11. The upgrader never fails: on every document, however malformed its
\* stock, periods, opening stock, item metadata or history, it returns normally.
UpgradeNeverFails ==
    result.op = "upgrade" => result.err = NoError

---------------------------------------------------------------------------
(* load_data applied to the data file *)

\* What the data file holds: nothing (no file), text that json.load rejects, JSON
\* whose value is not an object, or a JSON object
FileContents ==
    {[kind |-> "absent"], [kind |-> "text"], [kind |-> "array"]}
        \cup { [kind |-> "object", value |-> d] : d \in RawDocuments }

\* The except branch: the file is moved aside when shutil.move succeeds, and a
\* fresh document carries last_load_error
LoadRecovered(moved) ==
    Put(EmptyDocument, "last_load_error", [corrupt_backup |-> moved])

\* _ensure_new_schema(data), outside the try block, raises on a value that is not
\* an object (data.get) and on the documents the upgrader raises on
LoadRaises(file) ==
    \/ file.kind = "array"
    \/ file.kind = "object" /\ UpgradeRaises(file.value)

InitLoad ==
    /\ data \in [file : FileContents, aside : {{}}]
    /\ result = NoResult

\* load_data()
LoadData ==
    \E moved \in BOOLEAN :
        CASE data.file.kind = "absent" ->
               /\ data' = data
               /\ result' = [op |-> "load_data", err |-> NoError, loaded |-> EmptyDocument]
          [] data.file.kind = "text" ->
               /\ data' = IF moved THEN [file |-> [kind |-> "absent"],
                                         aside |-> data.aside \cup {data.file}]
                          ELSE data
               /\ result' = [op |-> "load_data", err |-> NoError,
                             loaded |-> LoadRecovered(moved)]
          [] LoadRaises(data.file) ->
               /\ data' = data
               /\ result' = [op |-> "load_data", err |-> Error("AttributeError")]
          [] OTHER ->
               /\ data' = data
               /\ result' = [op |-> "load_data", err |-> NoError,
                             loaded |-> load_data(data.file.value)]

NextLoad == LoadData

SpecLoad == InitLoad /\ [][NextLoad]_vars

\* C12. Loading never raises, whatever the data file holds.
LoadNeverRaises ==
    result.op = "load_data" => result.err = NoError

---------------------------------------------------------------------------
(* InventoryApp: events *)

\* The identifier of an event is the clock read to the second: "e1", "e2", ...
\* are successive seconds, and EventSecond is the inverse ("" is no event).
EventIdOf(n) ==
    CASE n = 1 -> "e1" [] n = 2 -> "e2" [] n = 3 -> "e3" [] n = 4 -> "e4" [] OTHER -> "e5"

EventSecond(event_id) ==
    CASE event_id = "e1" -> 1 [] event_id = "e2" -> 2 [] event_id = "e3" -> 3
      [] event_id = "e4" -> 4 [] event_id = "e5" -> 5 [] OTHER -> 0

\* The second of the latest event of the history, 0 when it has none
LatestSecond(d) ==
    IF d.history = <<>> THEN 0
    ELSE CHOOSE s \in { EventSecond(d.history[n].event_id) : n \in 1 .. Len(d.history) } :
            \A n \in 1 .. Len(d.history) : EventSecond(d.history[n].event_id) <= s

\* What the clock may read when an event is submitted: the second of the latest
\* event, or the next one
Seconds(d) == { s \in {LatestSecond(d), LatestSecond(d) + 1} : s >= 1 }

\* The tuple _determine_event_session and _pick_event_for_return compare
EventKey(entry) ==
    <<entry.artist, entry.item, entry.option, normalize_category(entry.category)>>

\* Indexes of the open event dispatches with the key
OpenEvents(d, key) ==
    { n \in 1 .. Len(d.history) :
        /\ d.history[n].event
        /\ d.history[n].type = "out"
        /\ d.history[n].event_open
        /\ EventKey(d.history[n]) = key }

Latest(indexes) == CHOOSE n \in indexes : \A m \in indexes : m <= n

\* _determine_event_session: merge_index 0 is None
_determine_event_session(d, key, reuse, second) ==
    IF OpenEvents(d, key) = {} \/ ~reuse
    THEN [event_id |-> EventIdOf(second), merge_index |-> 0]
    ELSE [event_id |-> IF d.history[Latest(OpenEvents(d, key))].event_id # ""
                       THEN d.history[Latest(OpenEvents(d, key))].event_id
                       ELSE EventIdOf(second),
          merge_index |-> Latest(OpenEvents(d, key))]

\* _pick_event_for_return: selection is the entry chosen in EventReturnDialog, 0
\* when the dialog is closed without a choice
_pick_event_for_return(d, key, selection) ==
    IF OpenEvents(d, key) = {} THEN ""
    ELSE IF Cardinality(OpenEvents(d, key)) = 1
         THEN d.history[Latest(OpenEvents(d, key))].event_id
    ELSE IF selection \in OpenEvents(d, key) THEN d.history[selection].event_id
    ELSE ""

\* The target entry after a merge
MergedEntry(target, new_entry, added_qty) ==
    [target EXCEPT !.quantity = target.quantity + added_qty,
                   !.period = new_entry.period,
                   !.event = TRUE,
                   !.event_open = TRUE]

\* _merge_event_out: the entry just appended is folded into history[target_index]
_merge_event_out(d, target_index, added_qty) ==
    IF d.history = <<>> THEN d
    ELSE IF target_index > Len(d.history) - 1 THEN d
    ELSE Put(d, "history",
             [n \in 1 .. (Len(d.history) - 1) |->
                 IF n = target_index
                 THEN MergedEntry(d.history[n], d.history[Len(d.history)], added_qty)
                 ELSE d.history[n]])

SetEventOpen(d, event_id, open) ==
    IF event_id = "" THEN d
    ELSE Put(d, "history",
             [n \in 1 .. Len(d.history) |->
                 IF /\ d.history[n].event
                    /\ d.history[n].event_id = event_id
                    /\ d.history[n].type = "out"
                 THEN [d.history[n] EXCEPT !.event_open = open]
                 ELSE d.history[n]])

\* Mutant: a receipt closes the dispatches of every event.
CloseEveryEventOut(d, event_id) ==
    IF event_id = "" THEN d
    ELSE Put(d, "history",
             [n \in 1 .. Len(d.history) |->
                 IF d.history[n].event /\ d.history[n].type = "out"
                 THEN [d.history[n] EXCEPT !.event_open = FALSE]
                 ELSE d.history[n]])

_close_event_out(d, event_id) == SetEventOpen(d, event_id, FALSE)
_reopen_event(d, event_id) == SetEventOpen(d, event_id, TRUE)

---------------------------------------------------------------------------
(* InventoryApp.submit_transaction *)

Cancelled == Error("Cancelled")

\* The Transaction submit_transaction builds
SubmitTx(tx_type, form, artist, category, event_id) ==
    [type |-> tx_type, artist |-> artist, item |-> form.item, category |-> category,
     option |-> form.option, location |-> form.location, quantity |-> form.quantity,
     timestamp |-> form.month, description |-> form.description, event |-> form.event,
     event_id |-> event_id, event_open |-> form.event /\ tx_type = "out"]

\* record_transaction and the event bookkeeping that follows it
SubmitRecord(d, tx, allow_negative, merge_index, now) ==
    LET r == record_transaction(d, tx, allow_negative, now) IN
    IF r.err # NoError THEN r
    ELSE IF tx.event /\ tx.type = "out" /\ merge_index # 0
         THEN [data |-> _merge_event_out(r.data, merge_index, tx.quantity), err |-> NoError]
    ELSE IF tx.event /\ tx.type = "in" /\ tx.event_id # ""
         THEN [data |-> _close_event_out(r.data, tx.event_id), err |-> NoError]
    ELSE r

\* A dispatch, from the availability prompt on
SubmitOut(d, form, artist, category, answers, now) ==
    LET over == form.quantity > StockQty(d.stock, form.item, _option_key(form.option),
                                         form.location)
        session == IF form.event
                   THEN _determine_event_session(
                            d, <<artist, form.item, _option_key(form.option),
                                 normalize_category(form.category)>>, answers.reuse,
                            answers.second)
                   ELSE [event_id |-> "", merge_index |-> 0]
    IN IF over /\ ~answers.proceed THEN [data |-> d, err |-> Cancelled]
       ELSE SubmitRecord(d, SubmitTx("out", form, artist, category, session.event_id),
                         over, session.merge_index, now)

\* A receipt, from the choice of the event it returns on
SubmitIn(d, form, artist, category, answers, now) ==
    LET event_id == IF form.event
                    THEN _pick_event_for_return(
                             d, <<artist, form.item, _option_key(form.option),
                                  normalize_category(form.category)>>, answers.selection)
                    ELSE ""
    IN IF form.event /\ event_id = "" THEN [data |-> d, err |-> Error("NoEventChosen")]
       ELSE SubmitRecord(d, SubmitTx("in", form, artist, category, event_id), FALSE, 0, now)

\* submit_transaction after determine_artist has returned `a` without raising
SubmitDetermined(tx_type, form, a, c, answers, now) ==
    IF tx_type = "out"
    THEN SubmitOut(c.data, form, a.artist, c.category, answers, now)
    ELSE SubmitIn(c.data, form, a.artist, c.category, answers, now)

\* submit_transaction: [data |-> self.data afterwards, err |-> the ValueError shown]
submit_transaction(d, tx_type, form, answers, now) ==
    IF \/ form.item = "" \/ form.location = "" \/ ~TruthyStr(form.artist)
       \/ (tx_type = "out" /\ form.description = "")
    THEN [data |-> d, err |-> Error("Validation")]
    ELSE IF determine_artist(d, form.item, form.artist).err # NoError
         THEN [data |-> d, err |-> determine_artist(d, form.item, form.artist).err]
    ELSE SubmitDetermined(tx_type, form,
             determine_artist(d, form.item, form.artist),
             determine_category(determine_artist(d, form.item, form.artist).data,
                                form.item, form.category),
             answers, now)

---------------------------------------------------------------------------
(* InventoryApp: history delete and history edit *)

RemoveAt(seq, index) ==
    [n \in 1 .. (Len(seq) - 1) |-> IF n < index THEN seq[n] ELSE seq[n + 1]]

\* The stock effect of an entry taken back (sign -1) or applied (sign 1)
ApplyEntry(d, entry, sign) ==
    update_stock(d, entry.item, entry.option, entry.location,
                 IF entry.type = "in" THEN sign * entry.quantity ELSE -sign * entry.quantity)

\* DeleteReopened removing the entry without taking its effect back
DeleteReopenedKeepsStock(d, index, entry, proceed) ==
    IF /\ entry.type = "in"
       /\ StockQty(d.stock, entry.item, entry.option, entry.location) < entry.quantity
       /\ ~proceed
    THEN [data |-> d, err |-> Cancelled]
    ELSE [data |-> Put(d, "history", RemoveAt(d.history, index)), err |-> NoError]

\* delete_history_entry from the event reopening on; d has the event reopened
DeleteReopened(d, index, entry, proceed) ==
    IF /\ entry.type = "in"
       /\ StockQty(d.stock, entry.item, entry.option, entry.location) < entry.quantity
       /\ ~proceed
    THEN [data |-> d, err |-> Cancelled]
    ELSE [data |-> Put(ApplyEntry(d, entry, -1), "history", RemoveAt(d.history, index)),
          err |-> NoError]

\* delete_history_entry on history[index]; entry is the row of the view, as the
\* last refresh of the view left it
delete_history_entry(d, index, confirm, proceed) ==
    IF ~confirm THEN [data |-> d, err |-> Cancelled]
    ELSE IF index > Len(d.history) THEN [data |-> d, err |-> Error("NotFound")]
    ELSE DeleteReopened(
             IF d.history[index].event /\ d.history[index].type = "in"
             THEN _reopen_event(d, d.history[index].event_id)
             ELSE d,
             index, d.history[index], proceed)

\* EditApply adding the quantity of the new record whatever its type
EditApplyUnsigned(d, index, new_tx, now) ==
    Put(update_stock(
            SetItemInfo(ensure_period(d, TxPeriod(new_tx), now), new_tx.item,
                        BoundInfo(ItemInfo(ensure_period(d, TxPeriod(new_tx), now), new_tx.item),
                                  new_tx)),
            new_tx.item, new_tx.option, new_tx.location, new_tx.quantity),
        "history",
        [n \in 1 .. Len(d.history) |-> IF n = index THEN to_dict(new_tx) ELSE d.history[n]])

\* _apply_history_edit once the old entry's effect is taken back and the prompt
\* is passed: the period, the metadata, the new effect, the slot
EditApply(d, index, new_tx, now) ==
    Put(update_stock(
            SetItemInfo(ensure_period(d, TxPeriod(new_tx), now), new_tx.item,
                        BoundInfo(ItemInfo(ensure_period(d, TxPeriod(new_tx), now), new_tx.item),
                                  new_tx)),
            new_tx.item, new_tx.option, new_tx.location, SignedQuantity(new_tx)),
        "history",
        [n \in 1 .. Len(d.history) |-> IF n = index THEN to_dict(new_tx) ELSE d.history[n]])

\* EditReverted returning on a declined prompt without putting the old effect back
EditRevertedNoRollback(d, index, old, new_tx, proceed, now) ==
    IF /\ new_tx.type = "out"
       /\ StockQty(d.stock, new_tx.item, _option_key(new_tx.option), new_tx.location)
            < new_tx.quantity
       /\ ~proceed
    THEN [data |-> d, err |-> Cancelled]
    ELSE [data |-> EditApply(d, index, new_tx, now), err |-> NoError]

\* _apply_history_edit from the availability prompt on; d has the old effect taken back
EditReverted(d, index, old, new_tx, proceed, now) ==
    IF /\ new_tx.type = "out"
       /\ StockQty(d.stock, new_tx.item, _option_key(new_tx.option), new_tx.location)
            < new_tx.quantity
       /\ ~proceed
    THEN [data |-> ApplyEntry(d, old, 1), err |-> Cancelled]
    ELSE [data |-> EditApply(d, index, new_tx, now), err |-> NoError]

_apply_history_edit(d, index, new_tx, proceed, now) ==
    IF index > Len(d.history) THEN [data |-> d, err |-> Error("BadIndex")]
    ELSE IF new_tx.type = "out" /\ new_tx.description = ""
         THEN [data |-> d, err |-> Error("Validation")]
    ELSE EditReverted(ApplyEntry(d, d.history[index], -1), index, d.history[index],
                      new_tx, proceed, now)

\* The Transaction edit_history_entry builds from the dialog's values and the entry
EditedTx(entry, values) ==
    [type |-> entry.type, artist |-> values.artist, item |-> values.item,
     category |-> normalize_category(values.category), option |-> values.option,
     location |-> values.location, quantity |-> values.quantity,
     timestamp |-> values.month, description |-> values.description,
     event |-> entry.event, event_id |-> entry.event_id, event_open |-> entry.event_open]

---------------------------------------------------------------------------
(* InventoryApp: stock edit and stock delete *)

OptionsOf(stock, item) == Get(stock.m, item, JDict(EmptyMap)).m
LocationsOf(options, okey) == Get(options, okey, JDict(EmptyMap)).m

\* dict.update
Update(m, other) ==
    [x \in (DOMAIN m) \cup (DOMAIN other) |-> IF x \in DOMAIN other THEN other[x] ELSE m[x]]

\* The loop over source_options.items() when the item is renamed: every option of
\* the old item is merged into the new item's
MergeOptions(target, source) ==
    [o \in (DOMAIN target) \cup (DOMAIN source) |->
        IF o \in DOMAIN source
        THEN JDict(Update(LocationsOf(target, o), source[o].m))
        ELSE target[o]]

\* target_options after the loop
EditTargetOptions(stock, old_item, new_item) ==
    IF new_item # old_item
    THEN MergeOptions(OptionsOf(JDict(Pop(stock.m, old_item)), new_item),
                      OptionsOf(stock, old_item))
    ELSE OptionsOf(stock, old_item)

\* target_options with old_location popped from the old option
EditPopOld(target, okey_old, okey_new, old_location) ==
    IF Pop(LocationsOf(target, okey_old), old_location) = EmptyMap /\ okey_new # okey_old
    THEN Pop(target, okey_old)
    ELSE Put(target, okey_old, JDict(Pop(LocationsOf(target, okey_old), old_location)))

\* target_options with original_qty placed at the new option and location
EditPlaceNew(target, okey_new, new_location, original_qty) ==
    Put(target, okey_new,
        JDict(Put(LocationsOf(target, okey_new), new_location, JInt(original_qty))))

\* The stock after the relocation
EditStock(stock, old_item, okey_old, old_location, values, original_qty) ==
    JDict(Put(IF values.item # old_item THEN Pop(stock.m, old_item) ELSE stock.m,
              values.item,
              JDict(EditPlaceNew(
                        EditPopOld(EditTargetOptions(stock, old_item, values.item),
                                   okey_old, _option_key(values.option), old_location),
                        _option_key(values.option), values.location, original_qty))))

\* The metadata after the edit
EditMetadata(metadata, old_item, values) ==
    IF values.item # old_item
    THEN Put(Pop(metadata, old_item), values.item,
             BoundInfo(Get(metadata, old_item, EmptyMap), values))
    ELSE Put(metadata, old_item, BoundInfo(Get(metadata, old_item, EmptyMap), values))

\* The self-correction Transaction recorded for the difference
AdjustTx(values, delta, month) ==
    [type |-> IF delta > 0 THEN "in" ELSE "out", artist |-> values.artist,
     item |-> values.item, category |-> "album", option |-> values.option,
     location |-> values.location, quantity |-> IF delta > 0 THEN delta ELSE -delta,
     timestamp |-> month, description |-> "edit", event |-> FALSE, event_id |-> "",
     event_open |-> FALSE]

\* _apply_stock_edit from the metadata on; the prompts are passed
EditRelocate(d, old_item, okey_old, old_location, values, original_qty, allow, month, now) ==
    IF values.quantity = original_qty
    THEN [data |-> Put(Put(d, "item_metadata", EditMetadata(d.item_metadata, old_item, values)),
                       "stock", EditStock(d.stock, old_item, okey_old, old_location, values,
                                          original_qty)),
          err |-> NoError]
    ELSE record_transaction(
             Put(Put(d, "item_metadata", EditMetadata(d.item_metadata, old_item, values)),
                 "stock", EditStock(d.stock, old_item, okey_old, old_location, values,
                                    original_qty)),
             AdjustTx(values, values.quantity - original_qty, month),
             allow, now)

\* _apply_stock_edit from the prompts on; original_qty is the quantity at the row
EditPrompted(d, old_item, okey_old, old_location, values, original_qty, proceed, month, now) ==
    IF /\ ~proceed
       /\ \/ (values.quantity < original_qty /\ original_qty - values.quantity > original_qty)
          \/ values.quantity < 0
    THEN [data |-> d, err |-> Cancelled]
    ELSE IF /\ values.item # old_item
            /\ ItemInfo(d, values.item) # EmptyMap
            /\ Get(ItemInfo(d, values.item), "artist", None) \notin {None, values.artist}
         THEN [data |-> d, err |-> Error("ArtistMismatch")]
    ELSE EditRelocate(d, old_item, okey_old, old_location, values, original_qty,
                      \/ (values.quantity < original_qty
                            /\ original_qty - values.quantity > original_qty)
                      \/ values.quantity < 0,
                      month, now)

\* _apply_stock_edit: month is the month of datetime.now()
_apply_stock_edit(d, old_item, old_option, old_location, values, proceed, month, now) ==
    EditPrompted(d, old_item, _option_key(old_option), old_location, values,
                 StockQty(d.stock, old_item, _option_key(old_option), old_location),
                 proceed, month, now)

\* delete_selected_stock for one checked row and the locations chosen for it
delete_selected_stock(d, item, option, chosen) ==
    LET locations == [l \in DOMAIN LocationsOf(OptionsOf(d.stock, item), option) \ chosen |->
                         LocationsOf(OptionsOf(d.stock, item), option)[l]]
        option_map == IF locations = EmptyMap
                      THEN Pop(OptionsOf(d.stock, item), option)
                      ELSE Put(OptionsOf(d.stock, item), option, JDict(locations))
    IN IF option_map = EmptyMap
       THEN Put(Put(d, "stock", JDict(Pop(d.stock.m, item))),
                "item_metadata", Pop(d.item_metadata, item))
       ELSE Put(d, "stock", JDict(Put(d.stock.m, item, JDict(option_map))))

---------------------------------------------------------------------------
(* InventoryApp driven through its forms and dialogs *)

\* The month the session runs in: the first of the model's months
ThisMonth == CHOOSE p \in Periods : \A q \in Periods : p <= q

Form(item, location, quantity, artist, event) ==
    [item |-> item, option |-> "", location |-> location, quantity |-> quantity,
     artist |-> artist, category |-> "album", month |-> ThisMonth, description |-> "d",
     event |-> event]

\* The transaction form as submitted: a unit of item "A" of artist "X" at one
\* location, as an event or not, and at another as an event; the same item under
\* artist "Y"; a form without a location; a unit of item "B"
SubmitForms ==
    { Form("A", "L1", 1, "X", e) : e \in BOOLEAN }
    \cup { Form("A", "L2", 1, "X", TRUE), Form("A", "L1", 1, "Y", FALSE),
           Form("A", "", 1, "X", FALSE), Form("B", "L1", 1, "X", FALSE) }

\* The answers to the dialogs, and the second the clock reads
Answers(proceed, reuse, selection, second) ==
    [proceed |-> proceed, reuse |-> reuse, selection |-> selection, second |-> second]

\* The values a history edit is made from for an entry: one field changed, or the
\* description cleared
EditValues(entry) ==
    LET same == [artist |-> entry.artist, item |-> entry.item, category |-> entry.category,
                 option |-> entry.option, location |-> entry.location,
                 quantity |-> entry.quantity, month |-> entry.period,
                 description |-> entry.description]
    IN { [same EXCEPT !.artist = "Y"],
         [same EXCEPT !.quantity = IF entry.quantity = 2 THEN 1 ELSE 2],
         [same EXCEPT !.location = "L2"], [same EXCEPT !.description = ""] }

\* The records _apply_history_edit is given for a position: the entry edited, or
\* any record when the position is past the end of the history
EditedTxs(d, index) ==
    IF index > Len(d.history) THEN {Transaction("in", "X", "A", "", "L1", 1, ThisMonth)}
    ELSE { EditedTx(d.history[index], values) : values \in EditValues(d.history[index]) }

\* What StockEditDialog returns for a row and a location of it: the artist, the
\* item, the location or the quantity changed
StockEditValues(d, item, option, location) ==
    LET same == [item |-> item,
                 artist |-> IF TruthyStr(Get(ItemInfo(d, item), "artist", None))
                            THEN ItemInfo(d, item).artist ELSE "-",
                 category |-> normalize_category(Get(ItemInfo(d, item), "category", "album")),
                 option |-> option, location |-> location,
                 quantity |-> StockQty(d.stock, item, option, location)]
    IN { [same EXCEPT !.artist = "Y"], [same EXCEPT !.item = "B"],
         [same EXCEPT !.location = "L2"], [same EXCEPT !.quantity = 0] }

InitGUI ==
    /\ data = load_data(EmptyDocument)
    /\ result = [op |-> "init", err |-> NoError, step |-> 0]

\* The answers that can matter to a submission: the negative-stock prompt is
\* shown for a dispatch only, the reuse prompt and the clock are read for an
\* event dispatch only, and the event is chosen for an event receipt only
SubmitAnswers(d, tx_type, form) ==
    { Answers(proceed, reuse, selection, second) :
        proceed \in IF tx_type = "out" THEN BOOLEAN ELSE {FALSE},
        reuse \in IF tx_type = "out" /\ form.event THEN BOOLEAN ELSE {FALSE},
        selection \in IF tx_type = "in" /\ form.event THEN 0 .. Len(d.history) ELSE {0},
        second \in IF tx_type = "out" /\ form.event THEN Seconds(d)
                   ELSE {LatestSecond(d) + 1} }

SubmitTransaction ==
    \E tx_type \in {"in", "out"}, form \in SubmitForms :
      \E answers \in SubmitAnswers(data, tx_type, form) :
        LET r == submit_transaction(data, tx_type, form, answers, Now(data)) IN
        /\ result.step < MaxSteps
        /\ data' = r.data
        /\ result' = [op |-> "submit_transaction", err |-> r.err,
                      step |-> result.step + 1]

EditHistoryEntry ==
    \E index \in 1 .. (Len(data.history) + 1), proceed \in BOOLEAN :
        \E new_tx \in EditedTxs(data, index) :
            LET r == _apply_history_edit(data, index, new_tx, proceed, Now(data)) IN
            /\ result.step < MaxSteps
            /\ data' = r.data
            /\ result' = [op |-> "edit_history_entry", err |-> r.err,
                          step |-> result.step + 1]

DeleteHistoryEntry ==
    \E index \in 1 .. Len(data.history), confirm \in BOOLEAN, proceed \in BOOLEAN :
        LET r == delete_history_entry(data, index, confirm, proceed) IN
        /\ result.step < MaxSteps
        /\ data' = r.data
        /\ result' = [op |-> "delete_history_entry", err |-> r.err,
                      step |-> result.step + 1]

EditSelectedStock ==
    \E key \in StockKeys(data.stock), proceed \in BOOLEAN :
        \E values \in StockEditValues(data, key[1], key[2], key[3]) :
            LET r == _apply_stock_edit(data, key[1], key[2], key[3], values, proceed,
                                       ThisMonth, Now(data)) IN
            /\ result.step < MaxSteps
            /\ data' = r.data
            /\ result' = [op |-> "edit_selected_stock", err |-> r.err,
                          step |-> result.step + 1]

DeleteSelectedStock ==
    \E key \in StockKeys(data.stock), confirm \in BOOLEAN :
        \E chosen \in SUBSET DOMAIN LocationsOf(OptionsOf(data.stock, key[1]), key[2]) :
            /\ chosen # {}
            /\ result.step < MaxSteps
            /\ data' = IF confirm THEN delete_selected_stock(data, key[1], key[2], chosen)
                       ELSE data
            /\ result' = [op |-> "delete_selected_stock",
                          err |-> IF confirm THEN NoError ELSE Cancelled,
                          step |-> result.step + 1]

NextGUI ==
    \/ SubmitTransaction
    \/ EditHistoryEntry
    \/ DeleteHistoryEntry
    \/ EditSelectedStock
    \/ DeleteSelectedStock

SpecGUI == InitGUI /\ [][NextGUI]_vars

---------------------------------------------------------------------------
(* Claims about the whole ledger, checked under SpecGUI *)

\* The quantity at a key after replaying a history from an empty stock
RECURSIVE Replay(_, _, _, _)
Replay(history, item, okey, location) ==
    IF history = <<>> THEN 0
    ELSE Replay(SubSeq(history, 1, Len(history) - 1), item, okey, location)
         + (IF /\ history[Len(history)].item = item
               /\ _option_key(history[Len(history)].option) = okey
               /\ history[Len(history)].location = location
            THEN IF history[Len(history)].type = "in"
                 THEN history[Len(history)].quantity
                 ELSE -history[Len(history)].quantity
            ELSE 0)

\* C1. Stock consistency: in every reachable document, replaying the history from
\* an empty stock (in adds, out subtracts) gives the live stock at every item, option
\* and location, an absent key counting as 0.
StockConsistent ==
    \A item \in Items, okey \in Options, location \in Locations :
        Replay(data.history, item, okey, location)
            = StockQty(data.stock, item, okey, location)

\* C6. Artist binding: in every reachable document, the entries of the history for
\* one item all carry one artist, and it is the artist item_metadata has for the item.
ArtistBinding ==
    \A n \in 1 .. Len(data.history) :
        /\ TruthyStr(Get(ItemInfo(data, data.history[n].item), "artist", None)) =>
              ItemInfo(data, data.history[n].item).artist = data.history[n].artist
        /\ \A m \in 1 .. Len(data.history) :
              data.history[m].item = data.history[n].item =>
                  data.history[m].artist = data.history[n].artist

---------------------------------------------------------------------------
(* Claims about history edit and history delete, checked under SpecGUI *)

\* What an entry adds to the quantity at a key
Effect(entry, item, okey, location) ==
    IF entry.item = item /\ _option_key(entry.option) = okey /\ entry.location = location
    THEN IF entry.type = "in" THEN entry.quantity ELSE -entry.quantity
    ELSE 0

\* The step is the edit of history[index] into new_tx, and it went through (with
\* the negative-stock prompt accepted or not shown)
EditedInto(index, new_tx) ==
    LET r == _apply_history_edit(data, index, new_tx, TRUE, Now(data)) IN
    /\ result'.op = "edit_history_entry"
    /\ result'.err = NoError
    /\ r.err = NoError
    /\ data' = r.data

\* C13. An edit of the history entry at position i into a new record leaves, at
\* every key, the stock before minus the old entry's effect plus the new entry's
\* effect; the history keeps its length, position i holds the new record and
\* every other position is unchanged.
HistoryEditEffect ==
    [][\A index \in 1 .. Len(data.history) :
         \A values \in EditValues(data.history[index]) :
           EditedInto(index, EditedTx(data.history[index], values)) =>
             /\ Len(data'.history) = Len(data.history)
             /\ data'.history[index] = to_dict(EditedTx(data.history[index], values))
             /\ \A n \in 1 .. Len(data.history) :
                   n # index => data'.history[n] = data.history[n]
             /\ \A item \in Items, okey \in Options, location \in Locations :
                   StockQty(data'.stock, item, okey, location)
                     = StockQty(data.stock, item, okey, location)
                       - Effect(data.history[index], item, okey, location)
                       + Effect(data'.history[index], item, okey, location)]_vars

\* An out entry was edited onto a key it takes below zero, and the edit went through
HistoryEditEffectWitness ==
    /\ result.op = "edit_history_entry"
    /\ result.err = NoError
    /\ \E n \in 1 .. Len(data.history) :
          /\ data.history[n].type = "out"
          /\ data.history[n].location = "L2"
          /\ StockQty(data.stock, data.history[n].item, _option_key(data.history[n].option),
                      "L2") < 0

\* C14, as stated. A history edit that is rejected (no description on an out, a
\* position past the end, the negative-stock prompt declined) leaves every stock
\* quantity, the history, the periods and item_metadata as they were.
HistoryEditRejected ==
    [][(result'.op = "edit_history_entry" /\ result'.err # NoError) =>
         /\ \A item \in Items, okey \in Options, location \in Locations :
               StockQty(data'.stock, item, okey, location)
                 = StockQty(data.stock, item, okey, location)
         /\ data'.history = data.history
         /\ data'.periods = data.periods
         /\ data'.item_metadata = data.item_metadata]_vars

\* C14, amended. A history edit that is rejected leaves every stock quantity, the
\* history and the periods as they were; item_metadata is as it was, or as it was
\* with the defaults of the schema upgrader filled in (update_stock runs the
\* upgrader when the old effect is taken back).
HistoryEditRolledBack ==
    [][(result'.op = "edit_history_entry" /\ result'.err # NoError) =>
         /\ \A item \in Items, okey \in Options, location \in Locations :
               StockQty(data'.stock, item, okey, location)
                 = StockQty(data.stock, item, okey, location)
         /\ data'.history = data.history
         /\ data'.periods = data.periods
         /\ data'.item_metadata
               \in {data.item_metadata, _ensure_new_schema(data).item_metadata}]_vars

\* The negative-stock prompt of a history edit was declined while some stock is
\* not zero
HistoryEditRolledBackWitness ==
    /\ result.op = "edit_history_entry"
    /\ result.err = Cancelled
    /\ \E item \in Items, okey \in Options, location \in Locations :
          StockQty(data.stock, item, okey, location) # 0

\* The step is the deletion of history[index], and it went through (with the
\* negative-stock prompt accepted or not shown)
DeletedAt(index) ==
    LET r == delete_history_entry(data, index, TRUE, TRUE) IN
    /\ result'.op = "delete_history_entry"
    /\ result'.err = NoError
    /\ data' = r.data

\* An entry as the deletion of `deleted` leaves it: an out entry carrying the
\* event_id of a deleted event receipt is open again
Reopened(entry, deleted) ==
    IF /\ deleted.event /\ deleted.type = "in" /\ deleted.event_id # ""
       /\ entry.type = "out" /\ entry.event_id = deleted.event_id
    THEN [entry EXCEPT !.event_open = TRUE]
    ELSE entry

\* C15. Deleting the history entry at position i applies the inverse of that
\* entry's effect to the stock, removes that entry and no other (the others keep
\* their content and order), and, when the entry is an event receipt carrying an
\* event_id, marks the out entries with that event_id as open.
HistoryDeleteEffect ==
    [][\A index \in 1 .. Len(data.history) :
         DeletedAt(index) =>
           /\ Len(data'.history) = Len(data.history) - 1
           /\ \A n \in 1 .. Len(data'.history) :
                 data'.history[n]
                   = Reopened(data.history[IF n < index THEN n ELSE n + 1],
                              data.history[index])
           /\ \A item \in Items, okey \in Options, location \in Locations :
                 StockQty(data'.stock, item, okey, location)
                   = StockQty(data.stock, item, okey, location)
                     - Effect(data.history[index], item, okey, location)]_vars

\* A deletion went through and left an open event dispatch whose units are out
HistoryDeleteEffectWitness ==
    /\ result.op = "delete_history_entry"
    /\ result.err = NoError
    /\ \E n \in 1 .. Len(data.history) :
          /\ data.history[n].type = "out"
          /\ data.history[n].event_open
          /\ StockQty(data.stock, data.history[n].item,
                      _option_key(data.history[n].option), data.history[n].location) < 0

---------------------------------------------------------------------------
(* InventoryApp: reconciliation with the Google sheet *)

Categories == {"album", "md"}

\* The keys of a stock snapshot: <<category, item, option, location>>
SnapshotKeys == Categories \X Items \X Options \X Locations

\* _build_stock_snapshot: key -> [qty, artist, category]
_build_stock_snapshot(d) ==
    [key \in { k \in SnapshotKeys :
                 /\ <<k[2], k[3], k[4]>> \in StockKeys(d.stock)
                 /\ k[1] = normalize_category(Get(ItemInfo(d, k[2]), "category", "album")) }
       |-> [qty |-> StockQty(d.stock, key[2], key[3], key[4]),
            artist |-> Get(ItemInfo(d, key[2]), "artist", ""),
            category |-> key[1]]]

\* snapshot.get(key, {"qty": 0, "artist": "", "category": "album"})
SnapshotInfo(snapshot, key) ==
    IF key \in DOMAIN snapshot THEN snapshot[key]
    ELSE [qty |-> 0, artist |-> "", category |-> "album"]

\* The order of Python's str comparison on the strings of one key component
Rank(value) ==
    CASE value = "" -> 0
      [] value \in {"A", "L1", "album"} -> 1
      [] OTHER -> 2

KeyRank(key) == ((Rank(key[1]) * 3 + Rank(key[2])) * 3 + Rank(key[3])) * 3 + Rank(key[4])

\* sorted(keys)
RECURSIVE SortedKeys(_)
SortedKeys(keys) ==
    IF keys = {} THEN <<>>
    ELSE <<CHOOSE k \in keys : \A j \in keys : KeyRank(k) <= KeyRank(j)>>
         \o SortedKeys(keys \ {CHOOSE k \in keys : \A j \in keys : KeyRank(k) <= KeyRank(j)})

\* The artist of every item of the sheet that has one is written to item_metadata
MergeArtists(d, google) ==
    Put(d, "item_metadata",
        [i \in DOMAIN d.item_metadata
                 \cup { g \in DOMAIN google.item_metadata :
                          TruthyStr(Get(google.item_metadata[g], "artist", None)) }
           |-> IF /\ i \in DOMAIN google.item_metadata
                  /\ TruthyStr(Get(google.item_metadata[i], "artist", None))
               THEN Put(ItemInfo(d, i), "artist", google.item_metadata[i].artist)
               ELSE d.item_metadata[i]])

\* SyncTx with the quantity of the sheet in place of the difference
SyncTxAbsolute(key, local_info, google_info, month) ==
    [type |-> IF google_info.qty > local_info.qty THEN "in" ELSE "out",
     artist |-> IF TruthyStr(google_info.artist) THEN google_info.artist
                ELSE local_info.artist,
     item |-> key[2],
     category |-> normalize_category(IF TruthyStr(google_info.category)
                                     THEN google_info.category
                                     ELSE IF TruthyStr(local_info.category)
                                          THEN local_info.category ELSE "album"),
     option |-> key[3], location |-> key[4],
     quantity |-> google_info.qty,
     timestamp |-> month, description |-> "Google Drive", event |-> FALSE,
     event_id |-> "", event_open |-> FALSE]

\* The Transaction synthesized for a key whose quantities differ
SyncTx(key, local_info, google_info, month) ==
    [type |-> IF google_info.qty > local_info.qty THEN "in" ELSE "out",
     artist |-> IF TruthyStr(google_info.artist) THEN google_info.artist
                ELSE local_info.artist,
     item |-> key[2],
     category |-> normalize_category(IF TruthyStr(google_info.category)
                                     THEN google_info.category
                                     ELSE IF TruthyStr(local_info.category)
                                          THEN local_info.category ELSE "album"),
     option |-> key[3], location |-> key[4],
     quantity |-> IF google_info.qty > local_info.qty
                  THEN google_info.qty - local_info.qty
                  ELSE local_info.qty - google_info.qty,
     timestamp |-> month, description |-> "Google Drive", event |-> FALSE,
     event_id |-> "", event_open |-> FALSE]

\* SyncKey committing a transaction for a key whose quantities are equal as well
SyncKeyNoSkip(d, key, local_info, google_info, month, now) ==
    IF ~TruthyStr(google_info.artist) /\ ~TruthyStr(local_info.artist)
    THEN [data |-> d, err |-> Error("TypeError"), changes |-> 0]
    ELSE LET r == record_transaction(d, SyncTx(key, local_info, google_info, month),
                                     TRUE, now)
         IN [data |-> r.data, err |-> r.err,
             changes |-> IF r.err = NoError THEN 1 ELSE 0]

\* The body of the loop over the keys. When neither snapshot has an artist the
\* call determine_artist(self.data, item) lacks its third argument and raises
\* TypeError.
SyncKey(d, key, local_info, google_info, month, now) ==
    IF google_info.qty = local_info.qty
    THEN [data |-> d, err |-> NoError, changes |-> 0]
    ELSE IF ~TruthyStr(google_info.artist) /\ ~TruthyStr(local_info.artist)
    THEN [data |-> d, err |-> Error("TypeError"), changes |-> 0]
    ELSE LET r == record_transaction(d, SyncTx(key, local_info, google_info, month),
                                     TRUE, now)
         IN [data |-> r.data, err |-> r.err,
             changes |-> IF r.err = NoError THEN 1 ELSE 0]

\* The loop over the sorted keys, left at the first key that raises
RECURSIVE SyncLoop(_, _, _, _, _, _, _)
SyncLoop(d, keys, local_snapshot, google_snapshot, changes, month, now) ==
    IF keys = <<>> THEN [data |-> d, err |-> NoError, changes |-> changes]
    ELSE LET r == SyncKey(d, Head(keys), SnapshotInfo(local_snapshot, Head(keys)),
                          SnapshotInfo(google_snapshot, Head(keys)), month, now)
         IN IF r.err # NoError
            THEN [data |-> r.data, err |-> r.err, changes |-> changes]
            ELSE SyncLoop(r.data, Tail(keys), local_snapshot, google_snapshot,
                          changes + r.changes, month, now)

\* _write_backup: the backup files written, none inside the cooldown unless forced
_write_backup(d, label, force, recent) ==
    IF ~force /\ recent THEN {} ELSE {[label |-> label, content |-> d]}

\* backup_data_with_label written without force
BackupWithLabelUnforced(d, label, recent) == _write_backup(d, label, FALSE, recent)

backup_data_with_label(d, label, recent) == _write_backup(d, label, TRUE, recent)

\* What the sheet holds: nothing
NoPayload == [stock |-> JDict(EmptyMap), item_metadata |-> EmptyMap, empty |-> TRUE]

\* The document _read_google_payload builds from stock rows
Payload(stock, item_metadata) ==
    [stock |-> stock, item_metadata |-> item_metadata, empty |-> FALSE]

StockAt(item, location, quantity) ==
    JDict(item :> JDict("" :> JDict(location :> JInt(quantity))))

\* The sheets pulled: an empty one; item "A" at L1 under the local artist, as an
\* album and as md; item "A" under another artist at L1 and at L2; item "B"
\* without an artist
GooglePayloads ==
    { NoPayload,
      Payload(StockAt("A", "L1", 2), "A" :> [artist |-> "X", category |-> "album"]),
      Payload(StockAt("A", "L1", 2), "A" :> [artist |-> "X", category |-> "md"]),
      Payload(StockAt("A", "L1", 2), "A" :> [artist |-> "Y", category |-> "album"]),
      Payload(StockAt("A", "L2", 1), "A" :> [artist |-> "Y", category |-> "album"]),
      Payload(StockAt("B", "L1", 1), "B" :> [category |-> "album"]) }

\* sync_google_drive from the snapshots on
SyncPulled(d, google, month, now) ==
    SyncLoop(MergeArtists(d, google),
             SortedKeys(DOMAIN _build_stock_snapshot(d)
                          \cup DOMAIN _build_stock_snapshot(google)),
             _build_stock_snapshot(d), _build_stock_snapshot(google), 0, month, now)

\* What sync_google_drive leaves of a finished loop: an error is shown with the
\* text of the exception; a pull with changes is saved and loaded again
SyncFinished(pulled, backup) ==
    [data |-> IF pulled.err = NoError /\ pulled.changes > 0
              THEN load_data(save_data(pulled.data)) ELSE pulled.data,
     err |-> pulled.err, changes |-> pulled.changes, reported |-> {}, backup |-> backup]

\* sync_google_drive: [data, err, changes |-> keys committed, reported |-> the
\* counts of committed keys the message shown states, backup |-> backups written]
sync_google_drive(d, confirmed, google, recent, month, now) ==
    IF ~confirmed
    THEN [data |-> d, err |-> Cancelled, changes |-> 0, reported |-> {}, backup |-> {}]
    ELSE IF google.empty
    THEN [data |-> d, err |-> Error("NoData"), changes |-> 0, reported |-> {}, backup |-> {}]
    ELSE SyncFinished(SyncPulled(d, google, month, now),
                      backup_data_with_label(d, "google_pull", recent))

\* upload_google_drive: the backup, the save, the write to the sheet
upload_google_drive(d, confirmed, recent, written) ==
    IF ~confirmed
    THEN [data |-> d, err |-> Cancelled, changes |-> 0, reported |-> {}, backup |-> {}]
    ELSE [data |-> save_data(d),
          err |-> IF written THEN NoError ELSE Error("UploadFailed"),
          changes |-> 0, reported |-> {},
          backup |-> backup_data_with_label(d, "google_push", recent)]

---------------------------------------------------------------------------
(* The application with reconciliation: local submissions, pulls and pushes *)

\* The forms submitted locally: a unit of item "A" of artist "X" at either location
SyncForms == { Form("A", l, 1, "X", FALSE) : l \in Locations }

SyncResult(op, r, step) ==
    [op |-> op, err |-> r.err, step |-> step, changes |-> r.changes,
     reported |-> r.reported, backup |-> r.backup]

InitSync ==
    /\ data = load_data(EmptyDocument)
    /\ result = [op |-> "init", err |-> NoError, step |-> 0, changes |-> 0,
                 reported |-> {}, backup |-> {}]

SubmitLocal ==
    \E tx_type \in {"in", "out"}, form \in SyncForms :
      \E answers \in SubmitAnswers(data, tx_type, form) :
        LET r == submit_transaction(data, tx_type, form, answers, Now(data)) IN
        /\ result.step < MaxSteps
        /\ data' = r.data
        /\ result' = [op |-> "submit_transaction", err |-> r.err,
                      step |-> result.step + 1, changes |-> 0, reported |-> {},
                      backup |-> {}]

SyncGoogleDrive ==
    \E confirmed \in BOOLEAN, google \in GooglePayloads, recent \in BOOLEAN :
        LET r == sync_google_drive(data, confirmed, google, recent, ThisMonth, Now(data)) IN
        /\ result.step < MaxSteps
        /\ data' = r.data
        /\ result' = SyncResult("sync_google_drive", r, result.step + 1)

UploadGoogleDrive ==
    \E confirmed \in BOOLEAN, recent \in BOOLEAN, written \in BOOLEAN :
        LET r == upload_google_drive(data, confirmed, recent, written) IN
        /\ result.step < MaxSteps
        /\ data' = r.data
        /\ result' = SyncResult("upload_google_drive", r, result.step + 1)

NextSync ==
    \/ SubmitLocal
    \/ SyncGoogleDrive
    \/ UploadGoogleDrive

SpecSync == InitSync /\ [][NextSync]_vars

---------------------------------------------------------------------------
(* Claims about reconciliation, checked under SpecSync *)

\* The step is a pull of the sheet `google` that ran to completion
PulledFrom(google) ==
    LET r == sync_google_drive(data, TRUE, google, FALSE, ThisMonth, Now(data)) IN
    /\ result'.op = "sync_google_drive"
    /\ result'.err = NoError
    /\ ~google.empty
    /\ r.err = NoError
    /\ data' = r.data
    /\ result'.changes = r.changes

\* The keys at which the local and the external snapshot hold different quantities
Differing(d, google) ==
    { k \in DOMAIN _build_stock_snapshot(d) \cup DOMAIN _build_stock_snapshot(google) :
        SnapshotInfo(_build_stock_snapshot(d), k).qty
          # SnapshotInfo(_build_stock_snapshot(google), k).qty }

\* The entry is the transaction a pull synthesizes for the key
SynthesizedFor(entry, key, d, google) ==
    /\ entry.item = key[2] /\ entry.option = key[3] /\ entry.location = key[4]
    /\ entry.type = IF SnapshotInfo(_build_stock_snapshot(google), key).qty
                        > SnapshotInfo(_build_stock_snapshot(d), key).qty
                    THEN "in" ELSE "out"
    /\ entry.quantity \in { SnapshotInfo(_build_stock_snapshot(google), key).qty
                              - SnapshotInfo(_build_stock_snapshot(d), key).qty,
                            SnapshotInfo(_build_stock_snapshot(d), key).qty
                              - SnapshotInfo(_build_stock_snapshot(google), key).qty }
    /\ entry.quantity > 0

\* C16. After a pull that runs to completion the local stock at every item,
\* option and location of either snapshot is the external quantity (0 where the
\* sheet lacks the key), and the history has grown by one transaction per key
\* whose quantities differed: an in when the external quantity is the larger, an
\* out otherwise, of the absolute difference.
PullReachesExternal ==
    [][\A google \in GooglePayloads :
         PulledFrom(google) =>
           /\ \A key \in StockKeys(data.stock) \cup StockKeys(google.stock) :
                 StockQty(data'.stock, key[1], key[2], key[3])
                   = StockQty(google.stock, key[1], key[2], key[3])
           /\ Len(data'.history)
                = Len(data.history) + Cardinality(Differing(data, google))
           /\ \A n \in 1 .. Cardinality(Differing(data, google)) :
                 SynthesizedFor(data'.history[Len(data.history) + n],
                                SortedKeys(Differing(data, google))[n], data, google)]_vars

\* A pull committed two keys and drove a key the sheet lacks to zero
PullReachesExternalWitness ==
    /\ result.op = "sync_google_drive"
    /\ result.err = NoError
    /\ result.changes = 2
    /\ <<"A", "", "L2">> \in StockKeys(data.stock)
    /\ StockQty(data.stock, "A", "", "L2") = 0
    /\ StockQty(data.stock, "A", "", "L1") = 2

\* The step is a confirmed pull of the sheet `google`, completed or not
PullOf(google) ==
    LET r == sync_google_drive(data, TRUE, google, FALSE, ThisMonth, Now(data)) IN
    /\ result'.op = "sync_google_drive"
    /\ ~google.empty
    /\ result'.err = r.err
    /\ result'.changes = r.changes
    /\ data' = r.data

\* The external snapshot has the keys and the quantities of the local one
SameSnapshot(d, google) ==
    /\ DOMAIN _build_stock_snapshot(google) = DOMAIN _build_stock_snapshot(d)
    /\ \A k \in DOMAIN _build_stock_snapshot(d) :
          _build_stock_snapshot(google)[k].qty = _build_stock_snapshot(d)[k].qty

\* C17. Reconciling a document against a snapshot identical to its own stock
\* synthesizes no transaction and leaves the stock and the history unchanged.
PullOfSameSnapshot ==
    [][\A google \in GooglePayloads :
         (PullOf(google) /\ SameSnapshot(data, google)) =>
           /\ result'.err = NoError
           /\ result'.changes = 0
           /\ data'.stock = data.stock
           /\ data'.history = data.history]_vars

\* A pull of a sheet holding the two units the local stock holds changed nothing
PullOfSameSnapshotWitness ==
    /\ result.op = "sync_google_drive"
    /\ result.err = NoError
    /\ result.changes = 0
    /\ result.backup # {}
    /\ StockQty(data.stock, "A", "", "L1") = 2
    /\ StockKeys(data.stock) = {<<"A", "", "L1">>}
    /\ Len(data.history) = 2

\* C18. A pull never fails with the artist-mismatch error, whatever artists the
\* local document and the sheet bind an item to.
PullNeverArtistMismatch ==
    result.op = "sync_google_drive" => result.err.kind # "ArtistMismatch"

\* C19. When record_transaction fails for a key in the middle of a pull, the
\* failure shown states how many keys were committed, and the document is as
\* before the pull but for the committed keys: with no key committed, the stock,
\* the history and item_metadata are those of the backup taken before the pull.
PullFailureReported ==
    (result.op = "sync_google_drive" /\ result.err.kind = "ArtistMismatch") =>
        /\ result.reported = {result.changes}
        /\ result.changes = 0 =>
             \A b \in result.backup :
                 /\ data.stock = b.content.stock
                 /\ data.history = b.content.history
                 /\ data.item_metadata = b.content.item_metadata

\* C20. In every reconciliation pass, pull or push, a labelled backup holding
\* the document as it was before the pass is written, inside the backup cooldown
\* as well as outside it.
PassBackedUp ==
    [][(/\ result'.op \in {"sync_google_drive", "upload_google_drive"}
        /\ result'.err.kind \notin {"Cancelled", "NoData"}) =>
         result'.backup
           = {[label |-> IF result'.op = "sync_google_drive" THEN "google_pull"
                         ELSE "google_push",
               content |-> data]}]_vars

\* A pull changed the stock, and the backup written holds the stock before it
PassBackedUpWitness ==
    /\ result.op = "sync_google_drive"
    /\ result.changes > 0
    /\ \E b \in result.backup : b.label = "google_pull" /\ b.content.stock # data.stock


---------------------------------------------------------------------------
(* The background saver: AsyncSaveQueue and the owning thread *)

\* self.data as the owning thread holds it: the document and its last_updated
Memory(doc, last_updated) == [doc |-> doc, last_updated |-> last_updated]

\* The transactions the owning thread records while the saver runs: receipts that
\* never raise, of an item and of a second item (a new key of stock and item_metadata)
SaveTxs == { Transaction("in", "X", item, "", "L1", 1, 1) : item \in Items }

\* record_transaction up to and including update_stock: history.append is still to come
RecordUntilAppend(d, tx, now) ==
    LET u == _ensure_new_schema(ensure_period(d, TxPeriod(tx), now)) IN
    update_stock(SetItemInfo(u, tx.item, BoundInfo(ItemInfo(u, tx.item), tx)),
                 tx.item, tx.option, tx.location, SignedQuantity(tx))

\* _mark_last_updated: datetime.now() is later at every call
_mark_last_updated(mem) == Memory(mem.doc, mem.last_updated + 1)

\* deepcopy(data) walks the keys of the document in their order: current_period,
\* periods and stock come before history, item_metadata and last_updated.  `first` is
\* what the copy saw when it began, `mem` what the object holds when it ends.
DeepCopyTorn(first, mem) ==
    Memory([current_period |-> first.doc.current_period,
            periods |-> first.doc.periods,
            stock |-> first.doc.stock,
            history |-> mem.doc.history,
            item_metadata |-> mem.doc.item_metadata],
           mem.last_updated)

InitSave ==
    /\ data = [mem |-> Memory(load_data(EmptyDocument), 0),
               pc |-> "idle",
               tx |-> Transaction("in", "X", "A", "", "L1", 1, 1),
               queue |-> 0,
               worker |-> "waiting",
               snapshot |-> Memory(load_data(EmptyDocument), 0),
               disk |-> Memory(load_data(EmptyDocument), 0),
               writer |-> "none",
               enqueued |-> {},
               fresh |-> FALSE]
    /\ result = NoResult

\* The owning thread inside record_transaction, after update_stock
BeginRecord ==
    \E tx \in SaveTxs :
        /\ data.pc = "idle"
        /\ Len(data.mem.doc.history) < MaxHistory
        /\ data.mem.last_updated < MaxSteps
        /\ data' = [data EXCEPT
                      !.mem = Memory(RecordUntilAppend(data.mem.doc, tx, Now(data.mem.doc)),
                                     data.mem.last_updated),
                      !.pc = "recording",
                      !.tx = tx,
                      !.fresh = FALSE]
        /\ result' = [op |-> "record_transaction", err |-> NoError]

\* history.append, then _save_async: _mark_last_updated and enqueue(self.data)
FinishRecord ==
    LET mem == _mark_last_updated(Memory(AppendHistory(data.mem.doc, to_dict(data.tx)),
                                         data.mem.last_updated)) IN
    /\ data.pc = "recording"
    /\ data' = [data EXCEPT
                  !.mem = mem,
                  !.pc = "idle",
                  !.queue = data.queue + 1,
                  !.enqueued = data.enqueued \cup {mem}]
    /\ result' = [op |-> "enqueue", err |-> NoError]

\* _save_now: _mark_last_updated, then save_now copies and writes under the lock
SaveNow ==
    /\ data.pc = "idle"
    /\ data.mem.last_updated < MaxSteps
    /\ data' = [data EXCEPT
                  !.mem = _mark_last_updated(data.mem),
                  !.disk = _mark_last_updated(data.mem),
                  !.writer = "save_now",
                  !.fresh = TRUE]
    /\ result' = [op |-> "save_now", err |-> NoError]

\* _worker_loop: queue.get, then get_nowait until the queue is empty
WorkerGet ==
    /\ data.worker = "waiting"
    /\ data.queue > 0
    /\ data' = [data EXCEPT !.queue = 0, !.worker = "taken"]
    /\ result' = [op |-> "get", err |-> NoError]

\* _worker_loop: deepcopy(data) begins on the live object
WorkerCopyBegin ==
    /\ data.worker = "taken"
    /\ data' = [data EXCEPT !.snapshot = data.mem, !.worker = "copying"]
    /\ result' = [op |-> "deepcopy", err |-> NoError]

\* _worker_loop: deepcopy(data) ends; what the owning thread changed meanwhile is
\* in the second half of the copy only
WorkerCopyEnd ==
    /\ data.worker = "copying"
    /\ data' = [data EXCEPT !.snapshot = DeepCopyTorn(data.snapshot, data.mem),
                            !.worker = "copied"]
    /\ result' = [op |-> "deepcopy", err |-> NoError]

\* _worker_loop: a dict of the document grew while deepcopy iterated it; the
\* RuntimeError is raised outside the try and ends the thread
WorkerCopyFails ==
    /\ data.worker = "copying"
    /\ DOMAIN data.snapshot.doc.item_metadata # DOMAIN data.mem.doc.item_metadata
    /\ data' = [data EXCEPT !.worker = "dead"]
    /\ result' = [op |-> "deepcopy", err |-> Error("RuntimeError")]

\* _worker_loop: save_data(snapshot) under the lock
WorkerWrite ==
    /\ data.worker = "copied"
    /\ data' = [data EXCEPT !.disk = data.snapshot, !.writer = "worker",
                            !.worker = "waiting"]
    /\ result' = [op |-> "save_data", err |-> NoError]

NextSave ==
    \/ BeginRecord
    \/ FinishRecord
    \/ SaveNow
    \/ WorkerGet
    \/ WorkerCopyBegin
    \/ WorkerCopyEnd
    \/ WorkerCopyFails
    \/ WorkerWrite

SpecSave == InitSave /\ [][NextSave]_vars

---------------------------------------------------------------------------
(* Claims about the background saver, checked under SpecSave *)

\* C21: every document the background saver writes equals the in-memory document
\* as it was at some enqueue call.
WorkerWritesEnqueued ==
    data.writer = "worker" => data.disk \in data.enqueued

\* C22: from the return of save_now until the next mutation the file holds the
\* in-memory document; no background save overwrites it with an older snapshot.
SaveNowStays ==
    data.fresh => data.disk = data.mem


---------------------------------------------------------------------------
(* The backup directory: _write_backup with its cooldown and its pruning *)

\* The keep parameter of _write_backup, scaled down from its default of 10
Keep == 2

\* The cooldown of routine backups, in seconds
Cooldown == 120

\* The seconds that pass between two backup requests
Advances == {0, Cooldown - 1, Cooldown}

\* label=None of _write_backup, and the labels of the reconciliation passes
NoLabel == ""
Labels == {NoLabel, "google_pull", "google_push"}

\* _LAST_BACKUP_PATH = None
NoPath == [label |-> None, stamp |-> 0]

\* backup_dir / f"{DATA_FILE.stem}{label_part}_{timestamp}.json"
BackupPath(label, now) == [label |-> label, stamp |-> now]

BackupFile(path, doc) == [label |-> path.label, stamp |-> path.stamp, doc |-> doc]

PathOf(file) == BackupPath(file.label, file.stamp)

\* backup_dir.glob(f"{DATA_FILE.stem}{label_part}_*.json"): without a label the
\* pattern is "<stem>_*.json", which the name of every backup matches; with a label
\* it matches the names that begin with "<stem>_<label>_"
Matches(label, file) == label = NoLabel \/ file.label = label

\* The order of the file names: after "<stem>_" a timestamp begins with a digit and
\* a label with "g", "google_pull" precedes "google_push", and timestamps of equal
\* width compare as numbers
LabelRank(label) == CASE label = NoLabel -> 0 [] label = "google_pull" -> 1 [] OTHER -> 2

NameBefore(f, g) ==
    \/ LabelRank(f.label) < LabelRank(g.label)
    \/ LabelRank(f.label) = LabelRank(g.label) /\ f.stamp < g.stamp

\* backups[:-keep] of the sorted matches: all but the last `keep` names
Pruned(files, label, keep) ==
    { f \in files :
        /\ Matches(label, f)
        /\ Cardinality({ g \in files : Matches(label, g) /\ NameBefore(f, g) }) >= keep }

\* Mutant: a forced request is held back by the cooldown too.
CooldownSkipsForced(dir, force, now) ==
    dir.path # NoPath /\ now - dir.mono < Cooldown

\* not force and _LAST_BACKUP_PATH is not None and now - _LAST_BACKUP_MONO < 120
CooldownSkips(dir, force, now) ==
    ~force /\ dir.path # NoPath /\ now - dir.mono < Cooldown

\* open("w") on the path: a file of the same name is replaced
Written(files, path, doc) ==
    { f \in files : PathOf(f) # path } \cup {BackupFile(path, doc)}

\* _write_backup on the directory: [dir |-> the directory and the two globals
\* afterwards, wrote |-> the path written or NoPath, returned |-> the path returned]
WriteBackupFile(dir, doc, label, keep, force, now) ==
    IF CooldownSkips(dir, force, now)
    THEN [dir |-> dir, wrote |-> NoPath, returned |-> dir.path]
    ELSE LET path == BackupPath(label, now)
             files == Written(dir.files, path, doc) IN
         [dir |-> [files |-> files \ Pruned(files, label, keep),
                   mono |-> now, path |-> path],
          wrote |-> path, returned |-> path]

BackupResult(op, label, force, now, r, step) ==
    [op |-> op, err |-> NoError, label |-> label, force |-> force, now |-> now,
     wrote |-> r.wrote, returned |-> r.returned, step |-> step]

\* A process that has not yet made a backup, with an empty backups directory
InitBackup ==
    /\ data = [files |-> {}, mono |-> 0, path |-> NoPath, clock |-> 1]
    /\ result = [op |-> "init", err |-> NoError, label |-> NoLabel, force |-> FALSE,
                 now |-> 1, wrote |-> NoPath, returned |-> NoPath, step |-> 0]

\* What a request leaves: the directory, the two globals and the clock
AfterBackup(r, now) ==
    [files |-> r.dir.files, mono |-> r.dir.mono, path |-> r.dir.path, clock |-> now]

\* save_data: the routine backup of the document being saved (the documents of
\* successive requests are numbered by the request)
SaveData ==
    \E advance \in Advances :
        LET now == data.clock + advance
            r == WriteBackupFile(data, result.step + 1, NoLabel, Keep, FALSE, now) IN
        /\ result.step < MaxSteps
        /\ data' = AfterBackup(r, now)
        /\ result' = BackupResult("save_data", NoLabel, FALSE, now, r, result.step + 1)

\* backup_data: the manual backup
BackupData ==
    \E advance \in Advances :
        LET now == data.clock + advance
            r == WriteBackupFile(data, result.step + 1, NoLabel, Keep, TRUE, now) IN
        /\ result.step < MaxSteps
        /\ data' = AfterBackup(r, now)
        /\ result' = BackupResult("backup_data", NoLabel, TRUE, now, r, result.step + 1)

\* backup_data_with_label: the backup before a reconciliation pass
BackupDataWithLabel ==
    \E advance \in Advances, label \in Labels \ {NoLabel} :
        LET now == data.clock + advance
            r == WriteBackupFile(data, result.step + 1, label, Keep, TRUE, now) IN
        /\ result.step < MaxSteps
        /\ data' = AfterBackup(r, now)
        /\ result' = BackupResult("backup_data_with_label", label, TRUE, now, r,
                                  result.step + 1)

NextBackup ==
    \/ SaveData
    \/ BackupData
    \/ BackupDataWithLabel

SpecBackup == InitBackup /\ [][NextBackup]_vars


---------------------------------------------------------------------------
(* Claims about backups, checked under SpecBackup *)

\* C23: a routine request less than 120 seconds after the last written backup
\* writes nothing and returns the previous path; the first request of a process
\* and every forced request write the file named by their label and second and
\* restart the cooldown.
BackupCooldown ==
    [][ /\ (~result'.force /\ data.path # NoPath /\ result'.now - data.mono < 120)
            => /\ result'.wrote = NoPath
               /\ result'.returned = data.path
               /\ data'.files = data.files
               /\ data'.mono = data.mono
               /\ data'.path = data.path
        /\ (result'.force \/ data.path = NoPath \/ result'.now - data.mono >= 120)
            => /\ result'.wrote = BackupPath(result'.label, result'.now)
               /\ result'.returned = result'.wrote
               /\ data'.mono = result'.now
               /\ data'.path = result'.wrote ]_vars

\* A routine request made 119 seconds after the last written backup was held back
\* and returned the path of that backup.
BackupCooldownWitness ==
    /\ result.op = "save_data"
    /\ result.wrote = NoPath
    /\ result.returned = data.path
    /\ result.returned # NoPath
    /\ result.now - data.mono = Cooldown - 1

\* C24: at most `keep` files of every label are retained and they are the newest of
\* the label; pruning removes no backup of another label and never the file just
\* written.
RetentionPerLabel ==
    [][ /\ \A label \in Labels :
              Cardinality({ f \in data'.files : f.label = label }) <= Keep
        /\ \A gone \in { f \in data.files : PathOf(f) \notin { PathOf(g) : g \in data'.files } } :
              /\ gone.label = result'.label
              /\ \A f \in data'.files : f.label = gone.label => gone.stamp < f.stamp
        /\ result'.wrote # NoPath
             => result'.wrote \in { PathOf(f) : f \in data'.files } ]_vars


---------------------------------------------------------------------------
(* Event sessions: the handlers of SpecGUI and clear_event_flag *)

\* The test of clear_event_flag, _determine_event_session and _pick_event_for_return
IsOpenEventOut(entry) == entry.event /\ entry.type = "out" /\ entry.event_open

\* clear_event_flag on the selected history entry
clear_event_flag(d, index) ==
    IF index > Len(d.history) THEN [data |-> d, err |-> Error("NotFound")]
    ELSE IF ~IsOpenEventOut(d.history[index])
         THEN [data |-> d, err |-> Error("NotAnOpenEvent")]
    ELSE [data |-> Put(d, "history", [d.history EXCEPT ![index].event_open = FALSE]),
          err |-> NoError]

ClearEventFlag ==
    \E index \in 1 .. (Len(data.history) + 1) :
        LET r == clear_event_flag(data, index) IN
        /\ result.step < MaxSteps
        /\ data' = r.data
        /\ result' = [op |-> "clear_event_flag", err |-> r.err, step |-> result.step + 1]

NextEvent ==
    \/ SubmitTransaction
    \/ EditHistoryEntry
    \/ DeleteHistoryEntry
    \/ EditSelectedStock
    \/ DeleteSelectedStock
    \/ ClearEventFlag

SpecEvent == InitGUI /\ [][NextEvent]_vars

---------------------------------------------------------------------------
(* Claims about event sessions, checked under SpecEvent *)

\* The step recorded an event receipt on the event
ReturnRecorded(event_id) ==
    /\ result'.op = "submit_transaction"
    /\ Len(data'.history) = Len(data.history) + 1
    /\ data'.history[Len(data'.history)].type = "in"
    /\ data'.history[Len(data'.history)].event
    /\ data'.history[Len(data'.history)].event_id = event_id

\* A submitted event dispatch is open, whether appended or merged
DispatchRecordedOpen ==
    /\ result'.op = "submit_transaction"
    /\ Len(data'.history) = Len(data.history) + 1
    /\ data'.history[Len(data'.history)].type = "out"
    /\ data'.history[Len(data'.history)].event
    => data'.history[Len(data'.history)].event_open

\* An event receipt closes every dispatch of its event and no dispatch of another
ReturnClosesItsEvent ==
    \A n \in 1 .. Len(data.history) :
        ReturnRecorded(data'.history[Len(data'.history)].event_id)
        => IF data.history[n].event_id = data'.history[Len(data'.history)].event_id
           THEN data.history[n].event /\ data.history[n].type = "out"
                  => ~data'.history[n].event_open
           ELSE data'.history[n].event_open = data.history[n].event_open

\* The entries that stop being open event dispatches in a step that removes no entry
ClosedInStep ==
    { n \in 1 .. Len(data.history) :
        /\ Len(data'.history) >= Len(data.history)
        /\ IsOpenEventOut(data.history[n])
        /\ ~IsOpenEventOut(data'.history[n]) }

\* C25 as stated: an event dispatch is recorded open and stays open until an event
\* receipt with its event_id is recorded; the receipt closes every dispatch of that
\* event_id and leaves the dispatches of every other event_id as they are.
EventOpenUntilReturn ==
    [][ /\ DispatchRecordedOpen
        /\ ReturnClosesItsEvent
        /\ \A n \in ClosedInStep : ReturnRecorded(data.history[n].event_id) ]_vars

\* C25 amended: an open event dispatch is closed by an event receipt with its
\* event_id or by clear_event_flag on the entry, and by nothing else.
EventOpenUntilClosed ==
    [][ /\ DispatchRecordedOpen
        /\ ReturnClosesItsEvent
        /\ \A n \in ClosedInStep :
              \/ ReturnRecorded(data.history[n].event_id)
              \/ result'.op = "clear_event_flag" /\ ClosedInStep = {n} ]_vars

\* An event receipt has been recorded on one of two events: the dispatch of its
\* event is closed and the dispatch of the other event is still open.
EventOpenUntilClosedWitness ==
    /\ result.op = "submit_transaction"
    /\ result.err = NoError
    /\ Len(data.history) = 3
    /\ data.history[3].type = "in"
    /\ data.history[3].event
    /\ \E n, m \in 1 .. 2 :
          /\ data.history[n].event_id = data.history[3].event_id
          /\ data.history[n].type = "out"
          /\ ~data.history[n].event_open
          /\ data.history[m].event_id # data.history[3].event_id
          /\ IsOpenEventOut(data.history[m])


\* The entries a submission changed in place: the targets of a merge
MergedInto ==
    { n \in 1 .. Len(data.history) :
        /\ result'.op = "submit_transaction"
        /\ result'.err = NoError
        /\ Len(data'.history) = Len(data.history)
        /\ data'.history[n] # data.history[n] }

\* C26: a merged event dispatch of quantity q leaves the history length as it was,
\* adds exactly q to the quantity of the target, which is still open, and takes q
\* from the stock at the item, option and location the target entry names.
MergeAtTargetKey ==
    [][ \A n \in MergedInto :
          LET target == data'.history[n]
              q == target.quantity - data.history[n].quantity IN
          /\ MergedInto = {n}
          /\ q > 0
          /\ IsOpenEventOut(target)
          /\ \A key \in StockKeys(data.stock) \cup StockKeys(data'.stock) :
                StockQty(data'.stock, key[1], key[2], key[3])
                  = StockQty(data.stock, key[1], key[2], key[3])
                    - (IF key = <<target.item, _option_key(target.option), target.location>>
                       THEN q ELSE 0) ]_vars


---------------------------------------------------------------------------
(* A claim about the keys of the ledger, checked under SpecCLI *)

\* A non-empty string without leading or trailing whitespace
Trimmed(value) == value # "" /\ Strip(value) = value

\* C27: every item key and location key of stock and the item and location of
\* every history entry is a non-empty trimmed string; a request with a blank item
\* or location is rejected.
KeysTrimmed ==
    /\ \A key \in StockKeys(data.stock) : Trimmed(key[1]) /\ Trimmed(key[3])
    /\ \A n \in 1 .. Len(data.history) :
          Trimmed(data.history[n].item) /\ Trimmed(data.history[n].location)


---------------------------------------------------------------------------
(* filter_history *)

\* datetime.fromisoformat(value).date() as the number of the day counted from
\* 2024-01-01; 0 stands for the ValueError of a string that is no date
DayNumber(value) ==
    CASE value = "2024-01-31" -> 31
      [] value = "2024-02-01" -> 32
      [] value = "2025-01-01" -> 367
      [] OTHER -> 0

\* The fields of a history entry that filter_history reads
FilterEntry(day, period, year, artist) ==
    [day |-> day, period |-> period, year |-> year, artist |-> artist]

\* Entries as to_dict writes them, on three days of two years and under two
\* artists; an entry of an older file without day and year; an entry whose day is
\* no date
FilterEntries ==
    { FilterEntry("2024-01-31", "2024-01", "2024", "X"),
      FilterEntry("2024-02-01", "2024-02", "2024", "X"),
      FilterEntry("2024-02-01", "2024-02", "2024", "Y"),
      FilterEntry("2025-01-01", "2025-01", "2025", "X"),
      FilterEntry(None, "2024-02", None, "Y"),
      FilterEntry("2024-2-1", "2024-02", "2024", "X") }

FilterHistories ==
    UNION { [1 .. n -> FilterEntries] : n \in 0 .. MaxHistory }

\* The keyword arguments of filter_history; None is an argument left out
FilterArgs ==
    [day : {None, "2024-02-01"}, month : {None, "2024-02"}, year : {None, "2024"},
     artist : {None, "X"}, start_day : {None, "2024-02-01"},
     end_day : {None, "2024-02-01"}]

NoFilters ==
    [day |-> None, month |-> None, year |-> None, artist |-> None,
     start_day |-> None, end_day |-> None]

\* Mutant: the end of the range is exclusive.
InRangeExclusive(entry, start_day, end_day) ==
    IF ~TruthyStr(start_day) /\ ~TruthyStr(end_day) THEN TRUE
    ELSE IF ~TruthyStr(entry.day) THEN FALSE
    ELSE IF DayNumber(entry.day) = 0 THEN FALSE
    ELSE IF TruthyStr(start_day) /\ DayNumber(entry.day) < DayNumber(start_day) THEN FALSE
    ELSE IF TruthyStr(end_day) /\ DayNumber(entry.day) >= DayNumber(end_day) THEN FALSE
    ELSE TRUE

\* The range test of the loop body: FALSE is a `continue`
InRange(entry, start_day, end_day) ==
    IF ~TruthyStr(start_day) /\ ~TruthyStr(end_day) THEN TRUE
    ELSE IF ~TruthyStr(entry.day) THEN FALSE
    ELSE IF DayNumber(entry.day) = 0 THEN FALSE
    ELSE IF TruthyStr(start_day) /\ DayNumber(entry.day) < DayNumber(start_day) THEN FALSE
    ELSE IF TruthyStr(end_day) /\ DayNumber(entry.day) > DayNumber(end_day) THEN FALSE
    ELSE TRUE

\* The loop body of filter_history: TRUE when the entry is appended
FilterKeeps(entry, args) ==
    IF ~InRange(entry, args.start_day, args.end_day) THEN FALSE
    ELSE IF TruthyStr(args.day) /\ entry.day # args.day THEN FALSE
    ELSE IF TruthyStr(args.month) /\ entry.period # args.month THEN FALSE
    ELSE IF TruthyStr(args.year) /\ entry.year # args.year THEN FALSE
    ELSE IF TruthyStr(args.artist) /\ entry.artist # args.artist THEN FALSE
    ELSE TRUE

RECURSIVE filter_history(_, _)
filter_history(history, args) ==
    IF history = <<>> THEN <<>>
    ELSE (IF FilterKeeps(Head(history), args) THEN <<Head(history)>> ELSE <<>>)
           \o filter_history(Tail(history), args)

InitFilter ==
    /\ data \in [history : FilterHistories, args : {NoFilters}, filtered : {<<>>}]
    /\ result = NoResult

FilterHistory ==
    \E args \in FilterArgs :
        /\ data' = [history |-> data.history, args |-> args,
                    filtered |-> filter_history(data.history, args)]
        /\ result' = [op |-> "filter_history", err |-> NoError]

NextFilter == FilterHistory

SpecFilter == InitFilter /\ [][NextFilter]_vars

---------------------------------------------------------------------------
(* A claim about filter_history, checked under SpecFilter *)

\* The entry satisfies every filter that was supplied
Satisfies(entry, args) ==
    /\ args.day # None => entry.day = args.day
    /\ args.month # None => entry.period = args.month
    /\ args.year # None => entry.year = args.year
    /\ args.artist # None => entry.artist = args.artist
    /\ args.start_day # None
         => DayNumber(entry.day) # 0 /\ DayNumber(args.start_day) <= DayNumber(entry.day)
    /\ args.end_day # None
         => DayNumber(entry.day) # 0 /\ DayNumber(entry.day) <= DayNumber(args.end_day)

\* The positions of the entries that satisfy the filters, and the k-th of them
Selected(history, args) == { n \in 1 .. Len(history) : Satisfies(history[n], args) }

NthSelected(history, args, k) ==
    CHOOSE n \in Selected(history, args) :
        Cardinality({ m \in Selected(history, args) : m < n }) = k - 1

\* C28: filter_history returns, in their original order, exactly the entries that
\* satisfy every supplied filter; without a filter it returns every entry; the
\* history is left as it was.
FilterExact ==
    [][ /\ data'.history = data.history
        /\ Len(data'.filtered) = Cardinality(Selected(data.history, data'.args))
        /\ \A k \in 1 .. Len(data'.filtered) :
              data'.filtered[k] = data.history[NthSelected(data.history, data'.args, k)]
        /\ data'.args = NoFilters => data'.filtered = data.history ]_vars

\* A range of the single day 2024-02-01 returned the entry of that day and left
\* out the entry of the day before.
FilterExactWitness ==
    /\ result.op = "filter_history"
    /\ data.args = [NoFilters EXCEPT !.start_day = "2024-02-01", !.end_day = "2024-02-01"]
    /\ Len(data.history) = 2
    /\ data.history[1].day = "2024-01-31"
    /\ data.history[2].day = "2024-02-01"
    /\ data.filtered = <<data.history[2]>>


---------------------------------------------------------------------------
(* summarize *)

\* The fields of a history entry that summarize reads
SummaryEntry(type, item, option, location, quantity) ==
    [type |-> type, item |-> item, option |-> option, location |-> location,
     quantity |-> quantity]

\* A receipt and a dispatch at one key, the same key written without an option, a
\* receipt of an option of the item and a receipt of another item
SummaryEntries ==
    { SummaryEntry("in", "A", "", "L1", 2), SummaryEntry("out", "A", "", "L1", 1),
      SummaryEntry("out", "A", None, "L1", 2), SummaryEntry("in", "A", "v", "L1", 1),
      SummaryEntry("in", "B", "", "L2", 1) }

SummarySequences ==
    UNION { [1 .. n -> SummaryEntries] : n \in 0 .. MaxHistory }

\* Mutant: every entry counts as a receipt.
EntrySignUnsigned(entry) == 1

\* sign = 1 if entry["type"] == "in" else -1
EntrySign(entry) == IF entry.type = "in" THEN 1 ELSE -1

\* The loop body of summarize
SummarizeEntry(summary, entry) ==
    LET option == _option_key(entry.option)
        option_map == Get(summary, entry.item, EmptyMap)
        locations == Get(option_map, option, EmptyMap) IN
    Put(summary, entry.item,
        Put(option_map, option,
            Put(locations, entry.location,
                Get(locations, entry.location, 0) + EntrySign(entry) * entry.quantity)))

RECURSIVE SummarizeFrom(_, _)
SummarizeFrom(summary, entries) ==
    IF entries = <<>> THEN summary
    ELSE SummarizeFrom(SummarizeEntry(summary, Head(entries)), Tail(entries))

summarize(entries) == SummarizeFrom(EmptyMap, entries)

InitSummary ==
    /\ data \in [left : SummarySequences, right : SummarySequences, summary : {EmptyMap}]
    /\ result = NoResult

\* summarize of the entries of `left` followed by those of `right`
Summarize ==
    /\ data' = [data EXCEPT !.summary = summarize(data.left \o data.right)]
    /\ result' = [op |-> "summarize", err |-> NoError]

NextSummary == Summarize

SpecSummary == InitSummary /\ [][NextSummary]_vars

---------------------------------------------------------------------------
(* A claim about summarize, checked under SpecSummary *)

\* The keys of a summary and the quantity at a key, 0 where the key is absent
SummaryKeys(summary) ==
    { key \in Items \X Options \X Locations :
        /\ Has(summary, key[1])
        /\ Has(summary[key[1]], key[2])
        /\ Has(summary[key[1]][key[2]], key[3]) }

SummaryAt(summary, key) ==
    IF key \in SummaryKeys(summary) THEN summary[key[1]][key[2]][key[3]] ELSE 0

\* The entries at a key, and the receipts less the dispatches among them
EntriesAt(entries, key) ==
    { n \in 1 .. Len(entries) :
        /\ entries[n].item = key[1]
        /\ (IF entries[n].option = None THEN "" ELSE entries[n].option) = key[2]
        /\ entries[n].location = key[3] }

RECURSIVE Total(_, _, _)
Total(entries, positions, type) ==
    IF positions = {} THEN 0
    ELSE LET n == CHOOSE n \in positions : TRUE IN
         (IF entries[n].type = type THEN entries[n].quantity ELSE 0)
           + Total(entries, positions \ {n}, type)

\* The rearrangements of a sequence
Rearranged(entries) ==
    { [n \in 1 .. Len(entries) |-> entries[f[n]]] :
        f \in { g \in [1 .. Len(entries) -> 1 .. Len(entries)] :
                  \A a, b \in 1 .. Len(entries) : g[a] = g[b] => a = b } }

\* C29: summarize maps every key to the receipts less the dispatches of the entries
\* at the key, whatever the order of the entries (those of `left` are taken in
\* every order); the summary of a concatenation is the keywise sum of the two
\* summaries; the entries are left as they were.
SummarizeNet ==
    [][ LET entries == data.left \o data.right IN
        /\ data'.left = data.left /\ data'.right = data.right
        /\ SummaryKeys(data'.summary)
             = { key \in Items \X Options \X Locations : EntriesAt(entries, key) # {} }
        /\ \A key \in Items \X Options \X Locations :
              /\ SummaryAt(data'.summary, key)
                   = Total(entries, EntriesAt(entries, key), "in")
                     - Total(entries, EntriesAt(entries, key), "out")
              /\ SummaryAt(data'.summary, key)
                   = SummaryAt(summarize(data.left), key)
                     + SummaryAt(summarize(data.right), key)
        /\ SummaryKeys(data'.summary)
             = SummaryKeys(summarize(data.left)) \cup SummaryKeys(summarize(data.right))
        /\ \A other \in Rearranged(data.left) :
              summarize(other \o data.right) = data'.summary ]_vars

\* A receipt of 2 followed by dispatches of 1 and of 2 at the same key, one of them
\* written without an option, were summed to -1.
SummarizeNetWitness ==
    /\ result.op = "summarize"
    /\ Len(data.left) = 2
    /\ Len(data.right) = 1
    /\ data.left[1].type = "in"
    /\ data.right[1].option = None
    /\ SummaryAt(data.summary, <<"A", "", "L1">>) = -1

---------------------------------------------------------------------------
(* record_transaction applied to the document load_data returns *)

\* The JSON objects of the data file: stock absent, null, empty, a legacy location
\* map or keyed by option; item_metadata absent or one entry without category and
\* last_audit; a history that is empty or holds one legacy or one current entry
StoredFiles ==
    { RawDocument(s, m, {}, {h}) :
        s \in {{}} \cup { {v} : v \in {JNone, JDict(EmptyMap), JDict("A" :> LegacyLocations),
                                       JDict("A" :> OptionKeyed)} },
        m \in {{}, {"A" :> [artist |-> "X"]}},
        h \in {<<>>, <<LegacyEntry>>,
               <<to_dict(Transaction("in", "X", "A", "", "L1", 1, 1))>>} }

\* main: data = load_data(), before the handler of the command is called
InitStored ==
    /\ data \in { load_data(file) : file \in StoredFiles }
    /\ result = NoResult

NextStored == EnsurePeriod \/ RecordTransaction

SpecStored == InitStored /\ [][NextStored]_vars

---------------------------------------------------------------------------
(* Claims about the frame of record_transaction, checked under SpecStored *)

RecordSucceeded ==
    /\ result'.op = "record_transaction"
    /\ result'.err = NoError

\* The entry at the end of the history
EntryAtEnd(d) == d.history[Len(d.history)]

EntryKey(entry) == <<entry.item, _option_key(entry.option), entry.location>>

EntryChange(entry) == IF entry.type = "out" THEN -entry.quantity ELSE entry.quantity

\* A successful record_transaction makes the history one entry longer.
AppendsOne ==
    [][RecordSucceeded => Len(data'.history) = Len(data.history) + 1]_vars

\* A successful record_transaction changes the quantity at the key of the entry
\* it appends by +quantity for in and -quantity for out, and neither the quantity
\* nor the presence of any other key.
StockFrame ==
    [][RecordSucceeded =>
        /\ StockKeys(data'.stock)
             = StockKeys(data.stock) \cup {EntryKey(EntryAtEnd(data'))}
        /\ \A key \in StockKeys(data'.stock) :
              StockQty(data'.stock, key[1], key[2], key[3])
                = StockQty(data.stock, key[1], key[2], key[3])
                    + (IF key = EntryKey(EntryAtEnd(data'))
                       THEN EntryChange(EntryAtEnd(data')) ELSE 0)]_vars

\* A successful record_transaction leaves every earlier entry as it was.
EarlierEntriesKept ==
    [][RecordSucceeded =>
        \A n \in 1 .. Len(data.history) :
            /\ n <= Len(data'.history)
            /\ data'.history[n] = data.history[n]]_vars

\* C30. A successful record_transaction appends exactly one entry at the end of
\* the history and leaves every earlier entry exactly as it was, entries written
\* by an older schema included; it changes stock only at the item, option and
\* location of the transaction, by +quantity for in and -quantity for out.
RecordFrame ==
    [][RecordSucceeded =>
        /\ Len(data'.history) = Len(data.history) + 1
        /\ \A n \in 1 .. Len(data.history) : data'.history[n] = data.history[n]
        /\ StockKeys(data'.stock)
             = StockKeys(data.stock) \cup {EntryKey(EntryAtEnd(data'))}
        /\ \A key \in StockKeys(data'.stock) :
              StockQty(data'.stock, key[1], key[2], key[3])
                = StockQty(data.stock, key[1], key[2], key[3])
                    + (IF key = EntryKey(EntryAtEnd(data'))
                       THEN EntryChange(EntryAtEnd(data')) ELSE 0)]_vars

\* A document loaded from a file without a stock object still holds its legacy
\* entry as the file had it.
LegacyEntryLoaded ==
    /\ result = NoResult
    /\ Len(data.history) = 1
    /\ ~Has(data.history[1], "event_open")

---------------------------------------------------------------------------
(* The ledger over several months: ensure_period and record_transaction with any
   month, and the history and stock handlers of the window *)

\* The transactions recorded with a month of their own: a unit of item "A" in
\* and out at one key in each month, and a unit of item "B" in the later month
MonthTxs ==
    { Transaction(ty, "X", "A", "", "L1", 1, ts) : ty \in {"in", "out"}, ts \in Periods }
    \cup { Transaction("in", "X", "B", "", "L2", 1, 2) }

\* ensure_period(data, p) (handle_start_period)
StartPeriod ==
    \E p \in Periods :
        /\ result.step < MaxSteps
        /\ data' = ensure_period(data, p, Now(data))
        /\ result' = [op |-> "ensure_period", err |-> NoError, step |-> result.step + 1]

\* record_transaction(data, tx, allow_negative=allow)
RecordInMonth ==
    \E tx \in MonthTxs :
        \E allow \in (IF tx.type = "out" THEN BOOLEAN ELSE {FALSE}) :
            LET r == record_transaction(data, tx, allow, Now(data)) IN
            /\ result.step < MaxSteps
            /\ data' = r.data
            /\ result' = [op |-> "record_transaction", err |-> r.err,
                          step |-> result.step + 1]

NextMonths ==
    \/ StartPeriod
    \/ RecordInMonth
    \/ EditHistoryEntry
    \/ DeleteHistoryEntry
    \/ EditSelectedStock

SpecMonths == InitGUI /\ [][NextMonths]_vars

---------------------------------------------------------------------------
(* Claims about the opening stock, checked under SpecMonths *)

\* C31. Once a period record exists, no later record_transaction, update_stock,
\* history edit, history delete or ensure_period changes its opening_stock: the
\* record stays, and its snapshot is what it was, also when the live stock changes
\* and when a back-dated transaction is recorded.
OpeningStockFrozen ==
    [][\A p \in DOMAIN data.periods :
          /\ p \in DOMAIN data'.periods
          /\ data'.periods[p].opening_stock = data.periods[p].opening_stock]_vars

\* A back-dated transaction has just been recorded: the month of the appended
\* entry is before the current period, whose opening stock holds the item and
\* differs from the live stock.
OpeningStockFrozenWitness ==
    /\ result.op = "record_transaction"
    /\ result.err = NoError
    /\ Len(data.history) > 0
    /\ EntryAtEnd(data).period < data.current_period
    /\ Has(data.periods, data.current_period)
    /\ Has(data.periods[data.current_period].opening_stock.m, "A")
    /\ data.periods[data.current_period].opening_stock # data.stock

---------------------------------------------------------------------------
(* A claim about the opening stock and the entries of the current period,
   checked under Spec *)

\* The entries of a history that carry a period (_calculate_period_activity)
EntriesOfPeriod(history, period) ==
    SelectSeq(history, LAMBDA entry : entry.period = period)

\* C32. In every state reached by record_transaction calls with any timestamps,
\* the opening stock of the current period plus summarize of the history entries
\* of that period equals the live stock at every item, option and location.
OpeningPlusActivity ==
    (data.current_period # NoPeriod /\ Has(data.periods, data.current_period)) =>
        \A key \in Items \X Options \X Locations :
            StockQty(data.periods[data.current_period].opening_stock,
                     key[1], key[2], key[3])
              + SummaryAt(summarize(EntriesOfPeriod(data.history, data.current_period)), key)
              = StockQty(data.stock, key[1], key[2], key[3])

---------------------------------------------------------------------------
(* A claim about the rules of the schema upgrader, checked under SpecUpgrade *)

\* item -> option -> location -> quantity
IsOptionKeyed(value) ==
    /\ IsDict(value)
    /\ \A o \in DOMAIN value.m :
          /\ IsDict(value.m[o])
          /\ \A l \in DOMAIN value.m[o].m : IsInt(value.m[o].m[l])

\* A legacy item: a non-empty map of location -> quantity
IsLegacyItem(value) ==
    /\ IsDict(value)
    /\ DOMAIN value.m # {}
    /\ \A l \in DOMAIN value.m : IsInt(value.m[l])

\* Every item of a stock map is option-keyed
StockOptionKeyed(stock) ==
    /\ IsDict(stock)
    /\ \A i \in DOMAIN stock.m : IsOptionKeyed(stock.m[i])

\* The quantities of the legacy items of `before` are found under the
\* empty-string option of `after`
LegacyPreserved(before, after) ==
    IsDict(before) =>
        \A i \in DOMAIN before.m :
            IsLegacyItem(before.m[i]) =>
                \A l \in DOMAIN before.m[i].m :
                    /\ IsDict(after)
                    /\ Has(after.m, i)
                    /\ IsDict(after.m[i])
                    /\ Has(after.m[i].m, "")
                    /\ Get(after.m[i].m[""].m, l, JNone) = before.m[i].m[l]

HistoryUpgraded(d) ==
    \A n \in 1 .. Len(Get(d, "history", <<>>)) :
        \A field \in {"event", "event_id", "event_open", "category"} :
            Has(d.history[n], field)

MetadataUpgraded(d) ==
    \A i \in DOMAIN Get(d, "item_metadata", EmptyMap) :
        /\ IsDictInfo(d.item_metadata[i])
        /\ IsDict(Get(d.item_metadata[i], "last_audit", JNone))
        /\ TruthyStr(Get(d.item_metadata[i], "category", None))

PeriodsUpgraded(before, after) ==
    \A p \in DOMAIN Get(after, "periods", EmptyMap) :
        /\ StockOptionKeyed(Get(after.periods[p], "opening_stock", JNone))
        /\ LegacyPreserved(Get(before.periods[p], "opening_stock", JNone),
                           Get(after.periods[p], "opening_stock", JNone))

\* C33. One call of the schema upgrader that returns establishes all of its
\* rules together, for every input document: stock is a mapping, every item of
\* stock and of every opening stock is option-keyed with the legacy quantities
\* kept under the empty-string option, every history entry has event, event_id,
\* event_open and category, and every item-metadata entry has a last_audit
\* mapping and a category.
UpgradeEstablishesRules ==
    [][(result'.op = "upgrade" /\ result'.err = NoError) =>
          /\ StockOptionKeyed(Get(data', "stock", JNone))
          /\ LegacyPreserved(Get(data, "stock", JNone), Get(data', "stock", JNone))
          /\ PeriodsUpgraded(data, data')
          /\ HistoryUpgraded(data')
          /\ MetadataUpgraded(data')]_vars

\* The same for the documents whose stock is a mapping and whose item-metadata
\* entries are mappings.
UpgradeRulesOnStockedDocuments ==
    [][(/\ result'.op = "upgrade"
        /\ result'.err = NoError
        /\ IsDict(Get(data, "stock", JNone))
        /\ \A i \in DOMAIN Get(data, "item_metadata", EmptyMap) :
              IsDictInfo(data.item_metadata[i])) =>
          /\ StockOptionKeyed(Get(data', "stock", JNone))
          /\ LegacyPreserved(Get(data, "stock", JNone), Get(data', "stock", JNone))
          /\ PeriodsUpgraded(data, data')
          /\ HistoryUpgraded(data')
          /\ MetadataUpgraded(data')]_vars

---------------------------------------------------------------------------
(* The background saver with the worker thread scheduled fairly *)

\* A step of the worker thread (_worker_loop)
WorkerStep ==
    \/ WorkerGet
    \/ WorkerCopyBegin
    \/ WorkerCopyEnd
    \/ WorkerCopyFails
    \/ WorkerWrite

\* The worker is a daemon thread of the running process: whenever it can take a
\* step it takes one. Nothing obliges the owning thread to act.
SpecSaveFair == SpecSave /\ WF_vars(WorkerStep)

\* C34. After a mutating operation has enqueued a save, with the worker scheduled
\* fairly, the file eventually holds a document at least as recent as the
\* document of that enqueue.
EnqueuedEventuallyWritten ==
    \A n \in 1 .. (MaxSteps + 1) :
        (\E mem \in data.enqueued : mem.last_updated = n)
            ~> (data.disk.last_updated >= n)

\* The worker thread has ended while a request is in the queue.
WorkerDeadWithRequest ==
    /\ data.worker = "dead"
    /\ data.queue > 0

---------------------------------------------------------------------------
(* restore_from_backup_file beside the background saver.  A request in the queue
   refers to the document object that was self.data at the enqueue; restoring
   binds self.data to a new object.  The worker serves the last request only, so
   the queue is held as the object of its last request, 0 when it is empty. *)

\* restore_backup(path): the file's document with the missing top-level keys set
\* and upgraded; the same document is written to the data file
restore_backup(file) ==
    Memory(_ensure_new_schema(
               SetDefault(SetDefault(SetDefault(SetDefault(SetDefault(file.doc,
                   "current_period", NoPeriod), "periods", EmptyMap),
                   "stock", JDict(EmptyMap)), "history", <<>>), "item_metadata", EmptyMap)),
           file.last_updated)

\* The objects still referred to: self.data, the last request of the queue and
\* the request the worker holds; the others are garbage
Collect(d) ==
    [d EXCEPT !.objects = [id \in (DOMAIN d.objects) \cap {d.live, d.queue, d.taken} |->
                              d.objects[id]]]

InitRestore ==
    /\ data = [objects |-> (1 :> Memory(load_data(EmptyDocument), 0)),
               live |-> 1,
               queue |-> 0,
               worker |-> "waiting",
               taken |-> 0,
               snapshot |-> Memory(load_data(EmptyDocument), 0),
               disk |-> Memory(load_data(EmptyDocument), 0),
               backups |-> {},
               restored |-> FALSE]
    /\ result = NoResult

\* submit_transaction: record_transaction on self.data, then _save_async
RecordAndEnqueue ==
    \E tx \in SaveTxs :
        LET mem == data.objects[data.live]
            r == record_transaction(mem.doc, tx, FALSE, Now(mem.doc)) IN
        /\ Len(mem.doc.history) < MaxHistory
        /\ mem.last_updated < MaxSteps
        /\ data' = Collect([data EXCEPT
                      !.objects = Put(data.objects, data.live,
                                      _mark_last_updated(Memory(r.data, mem.last_updated))),
                      !.queue = data.live,
                      !.restored = FALSE])
        /\ result' = [op |-> "enqueue", err |-> r.err]

\* backup_now: backup_data(self.data) (the model keeps at most Keep backups)
BackupNow ==
    /\ Cardinality(data.backups) < Keep
    /\ data' = Collect([data EXCEPT !.backups = data.backups \cup {data.objects[data.live]}])
    /\ result' = [op |-> "backup_data", err |-> NoError]

\* restore_from_backup_file: self.data = restore_backup(path)
RestoreFromBackupFile ==
    \E file \in data.backups :
        /\ data.live < MaxSteps
        /\ data' = Collect([data EXCEPT
                      !.objects = Put(data.objects, data.live + 1, restore_backup(file)),
                      !.live = data.live + 1,
                      !.disk = restore_backup(file),
                      !.restored = TRUE])
        /\ result' = [op |-> "restore_backup", err |-> NoError]

\* _worker_loop: queue.get, then get_nowait until the queue is empty; the last
\* request is the one served
WorkerTakes ==
    /\ data.worker = "waiting"
    /\ data.queue # 0
    /\ data' = Collect([data EXCEPT !.taken = data.queue,
                            !.queue = 0,
                            !.worker = "taken"])
    /\ result' = [op |-> "get", err |-> NoError]

\* _worker_loop: snapshot = deepcopy(data) of the object of the request
WorkerCopies ==
    /\ data.worker = "taken"
    /\ data' = Collect([data EXCEPT !.snapshot = data.objects[data.taken],
                                    !.taken = 0,
                                    !.worker = "copied"])
    /\ result' = [op |-> "deepcopy", err |-> NoError]

\* _worker_loop: save_data(snapshot) under the lock; save_data writes a backup
\* unless the cooldown holds it back (the model keeps at most Keep backups)
WorkerSaves ==
    \E backed \in {b \in BOOLEAN : b => Cardinality(data.backups) < Keep} :
        /\ data.worker = "copied"
        /\ data' = Collect([data EXCEPT
                      !.disk = data.snapshot,
                      !.backups = IF backed THEN data.backups \cup {data.snapshot}
                                  ELSE data.backups,
                      !.worker = "waiting"])
        /\ result' = [op |-> "save_data", err |-> NoError]

NextRestore ==
    \/ RecordAndEnqueue
    \/ BackupNow
    \/ RestoreFromBackupFile
    \/ WorkerTakes
    \/ WorkerCopies
    \/ WorkerSaves

SpecRestore == InitRestore /\ [][NextRestore]_vars

---------------------------------------------------------------------------
(* A claim about restoring, checked under SpecRestore *)

\* C35. From the restore of a backup until the next mutation the data file holds
\* the restored document: a background save enqueued before the restore does not
\* overwrite it.
RestoredStays ==
    data.restored => data.disk = data.objects[data.live]

---------------------------------------------------------------------------
(* A claim about a failing record_transaction, checked under Spec *)

\* C36. A record_transaction call that fails (InsufficientStock or
\* ArtistMismatch) leaves periods, current_period and item_metadata exactly as
\* they were before the call.
RecordFailureKeepsPeriodsAndMetadata ==
    [][(result'.op = "record_transaction" /\ result'.err # NoError) =>
          /\ data'.periods = data.periods
          /\ data'.current_period = data.current_period
          /\ data'.item_metadata = data.item_metadata]_vars

\* A failing record_transaction leaves current_period as it was.
RecordFailureKeepsCurrentPeriod ==
    [][(result'.op = "record_transaction" /\ result'.err # NoError) =>
          data'.current_period = data.current_period]_vars

\* A failing record_transaction leaves item_metadata as it was.
RecordFailureKeepsMetadata ==
    [][(result'.op = "record_transaction" /\ result'.err # NoError) =>
          data'.item_metadata = data.item_metadata]_vars

---------------------------------------------------------------------------
(* A claim about an abandoned history delete, checked under SpecGUI *)

\* C37. When a history delete is abandoned (a prompt is declined), the whole
\* document is unchanged: stock, history and the event_open flag of every entry.
AbandonedDeleteKeepsDocument ==
    [][(result'.op = "delete_history_entry" /\ result'.err = Cancelled) =>
          data' = data]_vars

\* An abandoned history delete leaves the stock and the length of the history
\* unchanged.
AbandonedDeleteKeepsStock ==
    [][(result'.op = "delete_history_entry" /\ result'.err = Cancelled) =>
          /\ data'.stock = data.stock
          /\ Len(data'.history) = Len(data.history)]_vars

---------------------------------------------------------------------------
(* A claim about the identifiers of event sessions, checked under SpecEvent *)

\* The positions of the event dispatches of a history
EventOuts(d) ==
    { n \in 1 .. Len(d.history) :
        /\ d.history[n].event
        /\ d.history[n].type = "out"
        /\ d.history[n].event_id # "" }

\* C38. Two event dispatches that were not merged into one entry always carry
\* distinct event_ids, however close in time they were submitted.
EventIdsDistinct ==
    \A m, n \in EventOuts(data) :
        m # n => data.history[m].event_id # data.history[n].event_id

---------------------------------------------------------------------------
(* A claim about a key without an artist, checked under SpecSync *)

\* C39. A pull in which a differing key has an artist in neither snapshot still
\* processes the key and goes on to the remaining keys: no pull is left at such
\* a key.
PullProcessesKeyWithoutArtist ==
    result.op = "sync_google_drive" => result.err # Error("TypeError")

---------------------------------------------------------------------------
(* export_to_xlsx: the rows given to the workbook *)

\* A row of the Transactions sheet, of the fields the model's entries carry
TransactionRow(entry) ==
    <<entry.type, entry.item, entry.option, entry.location, entry.quantity>>

\* The rows of the loops over summary.items() and locations.items(): the keys of
\* the second level of the summary are its option keys, and the values at that
\* level are the location maps
SummaryRows(summary) ==
    { [first |-> p[1], second |-> p[2],
       third |-> JDict([l \in DOMAIN summary[p[1]][p[2]] |-> JInt(summary[p[1]][p[2]][l])])] :
        p \in { q \in Items \X Options : Has(summary, q[1]) /\ Has(summary[q[1]], q[2]) } }

\* export_to_xlsx(entries, path, include_summary).  The workbook library is not part
\* of the repository: `refused` says whether it raises on a cell that holds a dict;
\* when it does, no row of the summary is written and wb.save is not reached.
export_to_xlsx(entries, include_summary, refused) ==
    LET rows == IF include_summary THEN SummaryRows(summarize(entries)) ELSE {}
        raised == rows # {} /\ refused IN
    [entries |-> entries,
     include_summary |-> include_summary,
     transactions |-> [n \in 1 .. Len(entries) |-> TransactionRow(entries[n])],
     summary |-> IF raised THEN {} ELSE rows,
     saved |-> ~raised]

InitExport ==
    /\ data \in [entries : SummarySequences, include_summary : BOOLEAN,
                 transactions : {<<>>}, summary : {{}}, saved : {FALSE}]
    /\ result = NoResult

\* handle_search --export-xlsx
ExportToXlsx ==
    \E refused \in BOOLEAN :
        /\ result = NoResult
        /\ data' = export_to_xlsx(data.entries, data.include_summary, refused)
        /\ result' = [op |-> "export_to_xlsx",
                      err |-> IF export_to_xlsx(data.entries, data.include_summary,
                                                refused).saved
                              THEN NoError ELSE Error("ValueError")]

NextExport == ExportToXlsx

SpecExport == InitExport /\ [][NextExport]_vars

---------------------------------------------------------------------------
(* A claim about the summary sheet, checked under SpecExport *)

\* C40. The summary table of an export has one row per item and location of
\* summarize(entries), and the third column of each row is the integer net
\* quantity of that item at that location.
SummarySheetRows ==
    (result.op = "export_to_xlsx" /\ data.include_summary) =>
        /\ data.saved
        /\ data.summary =
              { [first |-> key[1], second |-> key[3],
                 third |-> JInt(SummaryAt(summarize(data.entries), key))] :
                  key \in SummaryKeys(summarize(data.entries)) }

\* An export without a summary sheet, and one of no entries, is saved.
ExportWithoutSummarySaved ==
    (result.op = "export_to_xlsx" /\ (~data.include_summary \/ data.entries = <<>>)) =>
        data.saved

====
